---------------------------- MODULE Spec2Model ----------------------------
(***************************************************************************)
(* Model of the chat server of src/src/chat_server.py: the user table      *)
(* user_db, the session registry active_connections, the per-connection    *)
(* threads of client_handler and the request handlers they run under       *)
(* server_lock.  One action is one request handled inside the lock, from   *)
(* the dispatch in client_handler to the last server_send of the handler.  *)
(* A request is what client_handler hands to a handler: an operation name  *)
(* and the payload fields the handler reads with payload.get.  A handler   *)
(* is a function of the state it starts in and of its request: the         *)
(* operator handle_x gives the user table and the registry it leaves and   *)
(* its server_send calls in order, and the action client_handler_x applies *)
(* it in the thread of a connection.  SpecCodec looks at one connection    *)
(* below that level: the bytes WireProtocol.send writes for a message and  *)
(* what WireProtocol.receive and client_handler make of a byte stream.     *)
(***************************************************************************)
EXTENDS Integers, Sequences, FiniteSets, TLC

\* ------------------------------------------------------------------ bounds
\* number of message ids uuid4 hands out in one run of the model
MaxMsgs == 2
\* largest reading of the wall clock datetime.now()
MaxClock == 1

\* ------------------------------------------------------------ input domains
Users == {"u1", "u2"}
Passwords == {"p1", "p2"}
NewPasswords == {"p1"}
Texts == {"hi"}
Conns == {1, 2}
MessageIds == 1..MaxMsgs
Counts == 0..2

VARIABLES
    user_db,             \* username -> [hashed_password, session_status, messages]
    active_connections,  \* username -> connection (the WireProtocol of a client thread)
    sock,                \* connection -> state of its socket
    thread,              \* connection -> state of its client_handler thread
    next_id,             \* the next message id create_message_object draws
    now,                 \* the last reading of datetime.now()
    server_lock,         \* the connection whose thread holds server_lock, 0 when free
    held,                \* connection -> what its handler still has to do in the lock
    codec,               \* one connection seen at the level of its bytes
    call,                \* the last call of a function of the codec, with its result
    client               \* a ChatClient: its current_user and its last method call

vars == <<user_db, active_connections, sock, thread, next_id, now, server_lock, held, codec, call, client>>

\* -------------------------------------------------------------- pure helpers

\* hash_password: a one-way function of the concatenation username + password
hash_password(username, password) == <<"sha256", username \o password>>

\* a create_message_object that fills sender and recipient the wrong way round
create_message_object_swapped(sender, recipient, message, timestamp) ==
    [message_id |-> next_id,
     recipient  |-> sender,
     sender     |-> recipient,
     message    |-> message,
     read       |-> FALSE,
     timestamp  |-> timestamp]

\* a create_message_object that gives every message the same id
create_message_object_same_id(sender, recipient, message, timestamp) ==
    [message_id |-> 1,
     recipient  |-> recipient,
     sender     |-> sender,
     message    |-> message,
     read       |-> FALSE,
     timestamp  |-> timestamp]

\* create_message_object: the id uuid4 draws, read = False, and the reading
\* of datetime.now() as timestamp
create_message_object(sender, recipient, message, timestamp) ==
    [message_id |-> next_id,
     recipient  |-> recipient,
     sender     |-> sender,
     message    |-> message,
     read       |-> FALSE,
     timestamp  |-> timestamp]

\* the string-field dictionary WireProtocol.send indexes for str values
field_names ==
    {"username", "hashed_password", "session_status", "messages", "message_id",
     "recipient", "sender", "message", "read", "timestamp", "password"}

\* the Python type of the value a handler puts under each payload key
FieldType(field) ==
    CASE field = "unread_count"        -> "int"
      [] field = "messages"            -> "list"
      [] field = "deleted_message_ids" -> "list"
      [] field = "accounts"            -> "list"
      [] OTHER                         -> "str"

\* op_code_to_number: the dict literal names refresh_request twice, the
\* later entry (16) replaces the earlier one (12)
op_code_to_number ==
    [create_account_username |-> 0, create_account_password |-> 1, login |-> 2,
     retrieve_unread_count |-> 3, send_message |-> 4, read_message |-> 5,
     load_unread_messages |-> 6, load_read_messages |-> 7, delete_messages |-> 8,
     delete_account |-> 9, list_accounts |-> 10, quit |-> 11,
     error |-> 13, exists |-> 14, ok |-> 15, refresh_request |-> 16]

\* WireProtocol.send up to sock.sendall: TRUE when the message is encoded
\* without an exception.  A str value needs its key in field_names.  An int
\* or a list value is looked up in field_names_reverse_mapping, whose keys
\* are the numbers 0..12, under the field's name: a KeyError for every
\* name (and a list holding dicts is an unsupported type, ValueError).
send_encodes(message) ==
    /\ message.op_code \in DOMAIN op_code_to_number
    /\ \A field \in DOMAIN message.payload :
          CASE FieldType(field) = "str"  -> field \in field_names
            [] FieldType(field) = "int"  -> FALSE
            [] FieldType(field) = "list" -> FALSE

\* server_send(wire_protocol, response) returns normally: the message is
\* encoded and sock.sendall writes it to a socket that is still connected
Delivers(c, message) == send_encodes(message) /\ sock[c] = "open"

\* server_send(c, message): one call, in the order the handler makes it
Send(c, message) == [to |-> c, message |-> message]

Msg(op_code, payload) == [op_code |-> op_code, payload |-> payload]

\* send_error: op_code error with the text under "message"
error_msg(text) == Msg("error", [message |-> text])

\* a check that forgets session_status
user_online_any_status(username) == username \in DOMAIN user_db

\* the handlers' check "username in user_db and session_status == online"
user_online(username) ==
    username \in DOMAIN user_db /\ user_db[username].session_status = "online"

\* ------------------------------------------------------------------- Init

\* tables a previous run may have left in the shelve file
PersistedTables ==
    { [u \in {} |-> 0],
      [u \in {"u1"} |-> [hashed_password |-> hash_password("u1", "p1"),
                         session_status  |-> "online",
                         messages        |-> <<>>]] }

\* an init_database that keeps the persisted session_status
init_database_as_persisted(table) == table

\* init_database: every user of the loaded table is marked offline
init_database(table) ==
    [u \in DOMAIN table |-> [table[u] EXCEPT !.session_status = "offline"]]

\* a thread that is not inside a handler
NoRequest ==
    [plan |-> [db |-> [u \in {} |-> 0], registry |-> [u \in {} |-> 0], sends |-> <<>>],
     raised |-> FALSE, del |-> "", exits |-> FALSE]

\* no WireProtocol has sent or received anything
NoCodec ==
    [pc |-> "idle", sent |-> <<>>, raised |-> "", stream |-> <<>>, damage |-> "none",
     reads |-> 0, received |-> [outcome |-> "none"], handler |-> "", conn |-> "open"]

\* no function of the codec has been called
NoCall == [fn |-> "", input |-> <<>>, raises |-> "", output |-> <<>>, origin |-> <<>>]

\* ChatClient.__init__: no current user, nothing called yet
NoClient == [current_user |-> <<>>, method |-> "", user_before |-> <<>>, sends |-> <<>>]

Init ==
    /\ \E table \in PersistedTables : user_db = init_database(table)
    /\ codec = NoCodec
    /\ call = NoCall
    /\ client = NoClient
    /\ server_lock = 0
    /\ held = [c \in Conns |-> NoRequest]
    /\ active_connections = [u \in {} |-> 0]
    /\ sock = [c \in Conns |-> "idle"]
    /\ thread = [c \in Conns |-> "none"]
    /\ next_id = 1
    /\ now = 0

\* ---------------------------------------------------- connection lifecycle

\* start_server: accept a connection and start its client_handler thread
Accept(c) ==
    /\ sock[c] = "idle"
    /\ sock' = [sock EXCEPT ![c] = "open"]
    /\ thread' = [thread EXCEPT ![c] = "running"]
    /\ UNCHANGED <<user_db, active_connections, next_id, now, server_lock, held, codec, call, client>>

\* the peer goes away without a quit request: from now on recv returns
\* b"" and sendall raises OSError
PeerClose(c) ==
    /\ sock[c] = "open"
    /\ sock' = [sock EXCEPT ![c] = "broken"]
    /\ UNCHANGED <<user_db, active_connections, thread, next_id, now, server_lock, held, codec, call, client>>

\* client_handler: wire_protocol.receive() raises ConnectionError on the
\* dead socket, outside the lock; the except clause ends the loop
RecvFails(c) ==
    /\ thread[c] = "running"
    /\ sock[c] = "broken"
    /\ thread' = [thread EXCEPT ![c] = "done"]
    /\ UNCHANGED <<user_db, active_connections, sock, next_id, now, server_lock, held, codec, call, client>>

\* client_handler: finally: conn.close(), once the loop has been left
Close(c) ==
    /\ thread[c] = "done"
    /\ sock[c] \in {"open", "broken"}
    /\ sock' = [sock EXCEPT ![c] = "closed"]
    /\ UNCHANGED <<user_db, active_connections, thread, next_id, now, server_lock, held, codec, call, client>>

\* ------------------------------------------------------- request handling

Min(a, b) == IF a <= b THEN a ELSE b

\* the position of the first server_send of the sequence that raises, 0 if none
FirstFailure(sends) ==
    LET bad == {i \in 1..Len(sends) : ~Delivers(sends[i].to, sends[i].message)}
    IN  IF bad = {} THEN 0 ELSE CHOOSE i \in bad : \A j \in bad : i <= j

\* an exception leaves the handler at the first server_send that raises
Raises(sends) == FirstFailure(sends) # 0

\* the frames the handler has put on the wire when it returns or raises
Written(sends) ==
    IF Raises(sends) THEN SubSeq(sends, 1, FirstFailure(sends) - 1) ELSE sends

\* what a handler leaves: the user table, the registry, its server_send calls
Outcome(db, registry, sends) == [db |-> db, registry |-> registry, sends |-> sends]

\* a handler that changes neither table and answers the requester
Answer(c, message) == Outcome(user_db, active_connections, <<Send(c, message)>>)

\* client_handler around a handler: it runs in the thread of a connection
\* that is in its receive loop; an exception raised by server_send leaves
\* the with block and the loop (finally: conn.close() follows as Close);
\* exits is the break after handle_quit
Dispatch(c, outcome, exits) ==
    /\ thread[c] = "running"
    /\ user_db' = outcome.db
    /\ active_connections' = outcome.registry
    /\ thread' = IF Raises(outcome.sends) \/ exits
                 THEN [thread EXCEPT ![c] = "done"]
                 ELSE thread
    /\ UNCHANGED <<sock, server_lock, held, codec, call, client>>

\* a username check that reserves the name it finds free
handle_account_creation_username_reserving(c, username) ==
    IF username \in DOMAIN user_db
    THEN Answer(c, Msg("exists", [message |-> "Username already exists. Please provide password."]))
    ELSE Outcome([u \in DOMAIN user_db \cup {username} |->
                     IF u = username
                     THEN [hashed_password |-> hash_password(username, ""),
                           session_status  |-> "offline",
                           messages        |-> <<>>]
                     ELSE user_db[u]],
                 active_connections,
                 <<Send(c, Msg("ok", [message |-> "Username available for creation."]))>>)

\* a username check that never finds the name taken
handle_account_creation_username_always_ok(c, username) ==
    Answer(c, Msg("ok", [message |-> "Username available for creation."]))

handle_account_creation_username(c, username) ==
    IF username \in DOMAIN user_db
    THEN Answer(c, Msg("exists", [message |-> "Username already exists. Please provide password."]))
    ELSE Answer(c, Msg("ok", [message |-> "Username available for creation."]))

client_handler_create_account_username(c, username) ==
    /\ Dispatch(c, handle_account_creation_username(c, username), FALSE)
    /\ UNCHANGED <<next_id, now>>

\* an account creation that overwrites an existing account
handle_account_creation_password_overwriting(c, username, password) ==
    Outcome([u \in DOMAIN user_db \cup {username} |->
                IF u = username
                THEN [hashed_password |-> hash_password(username, password),
                      session_status  |-> "offline",
                      messages        |-> <<>>]
                ELSE user_db[u]],
            active_connections,
            <<Send(c, Msg("ok", [message |-> "Account created successfully."]))>>)

handle_account_creation_password(c, username, password) ==
    IF username \notin DOMAIN user_db
    THEN Outcome([u \in DOMAIN user_db \cup {username} |->
                     IF u = username
                     THEN [hashed_password |-> hash_password(username, password),
                           session_status  |-> "offline",
                           messages        |-> <<>>]
                     ELSE user_db[u]],
                 active_connections,
                 <<Send(c, Msg("ok", [message |-> "Account created successfully."]))>>)
    ELSE Answer(c, error_msg("Account creation failed. Username already in use."))

client_handler_create_account_password(c, username, password) ==
    /\ Dispatch(c, handle_account_creation_password(c, username, password), FALSE)
    /\ UNCHANGED <<next_id, now>>

\* a login that does not compare the password hash
\* a handle_login that keeps the connection a user is already registered on
handle_login_keeping_first(c, username, password) ==
    IF username \in DOMAIN user_db
    THEN IF user_db[username].hashed_password = hash_password(username, password)
         THEN Outcome([user_db EXCEPT ![username].session_status = "online"],
                      [u \in DOMAIN active_connections \cup {username} |->
                          IF u \in DOMAIN active_connections
                          THEN active_connections[u] ELSE c],
                      <<Send(c, Msg("ok", [message |-> "Login successful."]))>>)
         ELSE Answer(c, error_msg("Incorrect password."))
    ELSE Answer(c, error_msg("Username does not exist."))

handle_login_any_password(c, username, password) ==
    IF username \in DOMAIN user_db
    THEN Outcome([user_db EXCEPT ![username].session_status = "online"],
                 [u \in DOMAIN active_connections \cup {username} |->
                     IF u = username THEN c ELSE active_connections[u]],
                 <<Send(c, Msg("ok", [message |-> "Login successful."]))>>)
    ELSE Answer(c, error_msg("Username does not exist."))

handle_login(c, username, password) ==
    IF username \in DOMAIN user_db
    THEN IF user_db[username].hashed_password = hash_password(username, password)
         THEN Outcome([user_db EXCEPT ![username].session_status = "online"],
                      [u \in DOMAIN active_connections \cup {username} |->
                          IF u = username THEN c ELSE active_connections[u]],
                      <<Send(c, Msg("ok", [message |-> "Login successful."]))>>)
         ELSE Answer(c, error_msg("Incorrect password."))
    ELSE Answer(c, error_msg("Username does not exist."))

client_handler_login(c, username, password) ==
    /\ Dispatch(c, handle_login(c, username, password), FALSE)
    /\ UNCHANGED <<next_id, now>>

NotOnlineError == error_msg("User not online or does not exist.")

\* sum(not m["read"] for m in messages)
UnreadCount(messages) == Len(SelectSeq(messages, LAMBDA m : ~m.read))
ReadCount(messages) == Len(SelectSeq(messages, LAMBDA m : m.read))

handle_retrieve_unread_count(c, username) ==
    IF ~user_online(username)
    THEN Answer(c, NotOnlineError)
    ELSE Answer(c, Msg("ok", [unread_count |-> UnreadCount(user_db[username].messages)]))

client_handler_retrieve_unread_count(c, username) ==
    /\ Dispatch(c, handle_retrieve_unread_count(c, username), FALSE)
    /\ UNCHANGED <<next_id, now>>

\* a send that never marks the message as read
StoredRead_never(recipient) == FALSE

\* a send that marks every message as read
StoredRead_always(recipient) == TRUE

\* handle_send_message sets read = True when the recipient is online
StoredRead(recipient) == user_db[recipient].session_status = "online"

RefreshRequest == Msg("refresh_request", [message |-> "You have a new message. Please refresh."])

\* handle_send_message goes on to create the message: the sender is online
\* and the recipient has an account
SendAccepted(sender, recipient) == user_online(sender) /\ recipient \in DOMAIN user_db

\* timestamp is the reading of datetime.now() inside create_message_object
handle_send_message(c, sender, recipient, message_text, timestamp) ==
    IF ~user_online(sender)
    THEN Answer(c, error_msg("Sender is not online or does not exist."))
    ELSE IF recipient \notin DOMAIN user_db
    THEN Answer(c, error_msg("Recipient '" \o recipient \o "' does not exist."))
    ELSE LET created == create_message_object(sender, recipient, message_text, timestamp)
             message_obj == IF StoredRead(recipient)
                            THEN [created EXCEPT !.read = TRUE]
                            ELSE created
             ack == Send(c, Msg("ok", [message    |-> "Message sent successfully.",
                                       message_id |-> message_obj.message_id]))
             push == IF /\ user_db[recipient].session_status = "online"
                        /\ recipient \in DOMAIN active_connections
                     THEN <<Send(active_connections[recipient], RefreshRequest)>>
                     ELSE <<>>
         IN  Outcome([user_db EXCEPT ![recipient].messages = Append(@, message_obj)],
                     active_connections,
                     <<ack>> \o push)

client_handler_send_message(c, sender, recipient, message_text, timestamp) ==
    /\ timestamp \in now..MaxClock
    /\ IF SendAccepted(sender, recipient)
       THEN /\ next_id <= MaxMsgs
            /\ next_id' = next_id + 1
            /\ now' = timestamp
       ELSE /\ timestamp = now
            /\ UNCHANGED <<next_id, now>>
    /\ Dispatch(c, handle_send_message(c, sender, recipient, message_text, timestamp), FALSE)

\* the position of the first message of the mailbox with the given id, 0 if none
FirstWithId(messages, message_id) ==
    LET at == {i \in 1..Len(messages) : messages[i].message_id = message_id}
    IN  IF at = {} THEN 0 ELSE CHOOSE i \in at : \A j \in at : i <= j

\* a read_message that marks the whole mailbox as read
\* a handle_read_message that flips the flag instead of setting it
handle_read_message_toggling(c, username, message_id) ==
    IF ~user_online(username)
    THEN Answer(c, NotOnlineError)
    ELSE LET i == FirstWithId(user_db[username].messages, message_id)
         IN  IF i = 0
             THEN Answer(c, error_msg("Message with ID " \o ToString(message_id) \o " not found."))
             ELSE Outcome([user_db EXCEPT ![username].messages[i].read = ~@],
                          active_connections,
                          <<Send(c, Msg("ok", [message |-> "Message " \o ToString(message_id)
                                                              \o " marked as read."]))>>)

handle_read_message_all(c, username, message_id) ==
    IF ~user_online(username)
    THEN Answer(c, NotOnlineError)
    ELSE IF FirstWithId(user_db[username].messages, message_id) = 0
    THEN Answer(c, error_msg("Message with ID " \o ToString(message_id) \o " not found."))
    ELSE Outcome([user_db EXCEPT ![username].messages =
                     [i \in 1..Len(@) |-> [@[i] EXCEPT !.read = TRUE]]],
                 active_connections,
                 <<Send(c, Msg("ok", [message |-> "Message " \o ToString(message_id)
                                                     \o " marked as read."]))>>)

handle_read_message(c, username, message_id) ==
    IF ~user_online(username)
    THEN Answer(c, NotOnlineError)
    ELSE LET i == FirstWithId(user_db[username].messages, message_id)
         IN  IF i = 0
             THEN Answer(c, error_msg("Message with ID " \o ToString(message_id) \o " not found."))
             ELSE Outcome([user_db EXCEPT ![username].messages[i].read = TRUE],
                          active_connections,
                          <<Send(c, Msg("ok", [message |-> "Message " \o ToString(message_id)
                                                              \o " marked as read."]))>>)

client_handler_read_message(c, username, message_id) ==
    /\ Dispatch(c, handle_read_message(c, username, message_id), FALSE)
    /\ UNCHANGED <<next_id, now>>

\* sorted(messages, key=timestamp, reverse=True): a stable sort, so messages
\* with equal timestamps keep their mailbox order
RECURSIVE SortedFrom(_, _)
SortedFrom(messages, t) ==
    IF t < 0 THEN <<>>
    ELSE SelectSeq(messages, LAMBDA m : m.timestamp = t) \o SortedFrom(messages, t - 1)

sorted_by_timestamp_desc(messages) == SortedFrom(messages, MaxClock)

\* sorted(...)[:n] for n >= 0
FirstN(messages, n) == SubSeq(messages, 1, Min(n, Len(messages)))

handle_load_unread_messages(c, username, n) ==
    IF ~user_online(username)
    THEN Answer(c, NotOnlineError)
    ELSE LET unread == SelectSeq(user_db[username].messages, LAMBDA m : ~m.read)
         IN  Answer(c, Msg("ok", [messages |-> FirstN(sorted_by_timestamp_desc(unread), n)]))

client_handler_load_unread_messages(c, username, n) ==
    /\ Dispatch(c, handle_load_unread_messages(c, username, n), FALSE)
    /\ UNCHANGED <<next_id, now>>

handle_load_read_messages(c, username, n) ==
    IF ~user_online(username)
    THEN Answer(c, NotOnlineError)
    ELSE LET read_msgs == SelectSeq(user_db[username].messages, LAMBDA m : m.read)
         IN  Answer(c, Msg("ok", [messages |-> FirstN(sorted_by_timestamp_desc(read_msgs), n)]))

client_handler_load_read_messages(c, username, n) ==
    /\ Dispatch(c, handle_load_read_messages(c, username, n), FALSE)
    /\ UNCHANGED <<next_id, now>>

\* the ids of a mailbox, in mailbox order
IdsOf(messages) == [i \in 1..Len(messages) |-> messages[i].message_id]

\* a delete_messages that does not check that the user is online
handle_delete_messages_unchecked(c, username, message_ids) ==
    IF username \notin DOMAIN user_db
    THEN Answer(c, NotOnlineError)
    ELSE LET user_messages == user_db[username].messages
             deleted == IdsOf(SelectSeq(user_messages, LAMBDA m : m.message_id \in message_ids))
             remaining == SelectSeq(user_messages, LAMBDA m : m.message_id \notin message_ids)
         IN  Outcome([user_db EXCEPT ![username].messages = remaining],
                     active_connections,
                     <<Send(c, Msg("ok", [deleted_message_ids |-> deleted]))>>)

handle_delete_messages(c, username, message_ids) ==
    IF ~user_online(username)
    THEN Answer(c, NotOnlineError)
    ELSE LET user_messages == user_db[username].messages
             deleted == IdsOf(SelectSeq(user_messages, LAMBDA m : m.message_id \in message_ids))
             remaining == SelectSeq(user_messages, LAMBDA m : m.message_id \notin message_ids)
         IN  Outcome([user_db EXCEPT ![username].messages = remaining],
                     active_connections,
                     <<Send(c, Msg("ok", [deleted_message_ids |-> deleted]))>>)

client_handler_delete_messages(c, username, message_ids) ==
    /\ Dispatch(c, handle_delete_messages(c, username, message_ids), FALSE)
    /\ UNCHANGED <<next_id, now>>

handle_delete_account(c, username) ==
    IF username \in DOMAIN user_db
    THEN Outcome([u \in DOMAIN user_db \ {username} |-> user_db[u]],
                 active_connections,
                 <<Send(c, Msg("ok", [message |-> "Account '" \o username
                                                     \o "' deleted successfully."]))>>)
    ELSE Answer(c, error_msg("User account not found."))

client_handler_delete_account(c, username) ==
    /\ Dispatch(c, handle_delete_account(c, username), FALSE)
    /\ UNCHANGED <<next_id, now>>

\* list(user_db.keys()), as the set of its elements
handle_list_accounts(c) == Answer(c, Msg("ok", [accounts |-> DOMAIN user_db]))

client_handler_list_accounts(c) ==
    /\ Dispatch(c, handle_list_accounts(c), FALSE)
    /\ UNCHANGED <<next_id, now>>

\* a quit that leaves the registry entry in place
\* a handle_quit that drops the registry entry and leaves session_status
handle_quit_staying_online(c, username) ==
    IF username \in DOMAIN user_db
    THEN Outcome(user_db,
                 [u \in DOMAIN active_connections \ {username} |-> active_connections[u]],
                 <<Send(c, Msg("ok", [message |-> "User '" \o username
                                                     \o "' marked as offline."]))>>)
    ELSE Answer(c, error_msg("User not found."))

handle_quit_keeping_entry(c, username) ==
    IF username \in DOMAIN user_db
    THEN Outcome([user_db EXCEPT ![username].session_status = "offline"],
                 active_connections,
                 <<Send(c, Msg("ok", [message |-> "User '" \o username
                                                     \o "' marked as offline."]))>>)
    ELSE Answer(c, error_msg("User not found."))

\* the registry entry is deleted after server_send, so only when
\* server_send did not raise
handle_quit(c, username) ==
    IF username \in DOMAIN user_db
    THEN LET response == Send(c, Msg("ok", [message |-> "User '" \o username
                                                           \o "' marked as offline."]))
         IN  Outcome([user_db EXCEPT ![username].session_status = "offline"],
                     IF Raises(<<response>>)
                     THEN active_connections
                     ELSE [u \in DOMAIN active_connections \ {username} |->
                              active_connections[u]],
                     <<response>>)
    ELSE Answer(c, error_msg("User not found."))

\* handle_quit and the break that follows it, whatever handle_quit answered
client_handler_quit(c, username) ==
    /\ Dispatch(c, handle_quit(c, username), TRUE)
    /\ UNCHANGED <<next_id, now>>

\* client_handler: the else branch of the dispatch, for any other op_code
UnknownOps == {"bogus"}

unknown_op_code(c, op_code) == Answer(c, error_msg("Unknown op_code: " \o op_code))

client_handler_unknown(c, op_code) ==
    /\ Dispatch(c, unknown_op_code(c, op_code), FALSE)
    /\ UNCHANGED <<next_id, now>>

\* ------------------------------------------------------------------- Next

Next ==
    \/ \E c \in Conns : Accept(c)
    \/ \E c \in Conns : PeerClose(c)
    \/ \E c \in Conns : RecvFails(c)
    \/ \E c \in Conns : Close(c)
    \/ \E c \in Conns, u \in Users : client_handler_create_account_username(c, u)
    \/ \E c \in Conns, u \in Users, p \in NewPasswords :
          client_handler_create_account_password(c, u, p)
    \/ \E c \in Conns, u \in Users, p \in Passwords : client_handler_login(c, u, p)
    \/ \E c \in Conns, u \in Users : client_handler_retrieve_unread_count(c, u)
    \/ \E c \in Conns, s \in Users, r \in Users, t \in Texts :
          client_handler_send_message(c, s, r, t, now)
    \/ \E c \in Conns, u \in Users, m \in MessageIds : client_handler_read_message(c, u, m)
    \/ \E c \in Conns, u \in Users, n \in Counts : client_handler_load_unread_messages(c, u, n)
    \/ \E c \in Conns, u \in Users, n \in Counts : client_handler_load_read_messages(c, u, n)
    \/ \E c \in Conns, u \in Users, ids \in SUBSET MessageIds :
          client_handler_delete_messages(c, u, ids)
    \/ \E c \in Conns, u \in Users : client_handler_delete_account(c, u)
    \/ \E c \in Conns : client_handler_list_accounts(c)
    \/ \E c \in Conns, u \in Users : client_handler_quit(c, u)
    \/ \E c \in Conns, o \in UnknownOps : client_handler_unknown(c, o)

\* the server while the clock stands still: every message is created at
\* the same reading of datetime.now()
Spec == Init /\ [][Next]_vars

\* the server with a clock that advances between messages
NextClock ==
    \/ Next
    \/ \E c \in Conns, s \in Users, r \in Users, t \in Texts, ts \in (now + 1)..MaxClock :
          client_handler_send_message(c, s, r, t, ts)

SpecClock == Init /\ [][NextClock]_vars

\* --------------------------------------------------- the lock, step by step

\* the requests client_handler dispatches, as op_code and payload
Requests ==
    {[op_code |-> "create_account_username", username |-> u] : u \in Users}
    \cup {[op_code |-> "create_account_password", username |-> u, password |-> p] :
             u \in Users, p \in NewPasswords}
    \cup {[op_code |-> "login", username |-> u, password |-> p] :
             u \in Users, p \in Passwords}
    \cup {[op_code |-> "retrieve_unread_count", username |-> u] : u \in Users}
    \cup {[op_code |-> "send_message", sender |-> s, recipient |-> r, message |-> t] :
             s \in Users, r \in Users, t \in Texts}
    \cup {[op_code |-> "read_message", username |-> u, message_id |-> m] :
             u \in Users, m \in MessageIds}
    \cup {[op_code |-> "load_unread_messages", username |-> u, number_of_messages |-> n] :
             u \in Users, n \in Counts}
    \cup {[op_code |-> "load_read_messages", username |-> u, number_of_messages |-> n] :
             u \in Users, n \in Counts}
    \cup {[op_code |-> "delete_messages", username |-> u, message_ids |-> ids] :
             u \in Users, ids \in SUBSET MessageIds}
    \cup {[op_code |-> "delete_account", username |-> u] : u \in Users}
    \cup {[op_code |-> "list_accounts"]}
    \cup {[op_code |-> "quit", username |-> u] : u \in Users}
    \cup {[op_code |-> o] : o \in UnknownOps}

\* client_handler: the if / elif chain on op_code
HandlerOutcome(c, request) ==
    CASE request.op_code = "create_account_username" ->
            handle_account_creation_username(c, request.username)
      [] request.op_code = "create_account_password" ->
            handle_account_creation_password(c, request.username, request.password)
      [] request.op_code = "login" ->
            handle_login(c, request.username, request.password)
      [] request.op_code = "retrieve_unread_count" ->
            handle_retrieve_unread_count(c, request.username)
      [] request.op_code = "send_message" ->
            handle_send_message(c, request.sender, request.recipient, request.message, now)
      [] request.op_code = "read_message" ->
            handle_read_message(c, request.username, request.message_id)
      [] request.op_code = "load_unread_messages" ->
            handle_load_unread_messages(c, request.username, request.number_of_messages)
      [] request.op_code = "load_read_messages" ->
            handle_load_read_messages(c, request.username, request.number_of_messages)
      [] request.op_code = "delete_messages" ->
            handle_delete_messages(c, request.username, request.message_ids)
      [] request.op_code = "delete_account" ->
            handle_delete_account(c, request.username)
      [] request.op_code = "list_accounts" ->
            handle_list_accounts(c)
      [] request.op_code = "quit" ->
            handle_quit(c, request.username)
      [] OTHER ->
            unknown_op_code(c, request.op_code)

\* a with statement that does not wait for the lock
acquire_without_waiting(c) == TRUE

\* a lock of its own for every connection instead of the one global lock
acquire_own_lock(c) == server_lock # c

\* with server_lock: the thread goes on only when no thread holds the lock
acquire(c) == server_lock = 0

\* the thread of connection c, back from receive() with a request, enters
\* the with block and runs the handler up to its server_send calls: the
\* handler reads the tables and makes its updates; handle_quit deletes the
\* registry entry only after server_send (Leave)
Enter(c, request) ==
    /\ thread[c] = "running"
    /\ acquire(c)
    /\ server_lock' = c
    /\ thread' = [thread EXCEPT ![c] = "handling"]
    /\ LET outcome == HandlerOutcome(c, request)
           quits   == request.op_code = "quit"
       IN  /\ user_db' = outcome.db
           /\ active_connections' = IF quits THEN active_connections ELSE outcome.registry
           /\ held' = [held EXCEPT ![c] =
                          [plan   |-> outcome,
                           raised |-> Raises(outcome.sends),
                           del    |-> IF quits /\ request.username \in DOMAIN user_db
                                      THEN request.username ELSE "",
                           exits  |-> quits]]
    /\ IF request.op_code = "send_message" /\ SendAccepted(request.sender, request.recipient)
       THEN next_id <= MaxMsgs /\ next_id' = next_id + 1
       ELSE UNCHANGED next_id
    /\ UNCHANGED <<sock, now, codec, call, client>>

\* the handler's server_send calls, the del of handle_quit when server_send
\* returned, and the end of the with block, which releases the lock also
\* when an exception leaves it
Leave(c) ==
    /\ thread[c] = "handling"
    /\ LET raises == Raises(held[c].plan.sends)
       IN  /\ active_connections' =
                 IF ~raises /\ held[c].del # ""
                 THEN [u \in DOMAIN active_connections \ {held[c].del} |->
                          active_connections[u]]
                 ELSE active_connections
           /\ thread' = [thread EXCEPT ![c] =
                            IF raises \/ held[c].exits THEN "done" ELSE "running"]
    /\ server_lock' = 0
    /\ held' = [held EXCEPT ![c] = NoRequest]
    /\ UNCHANGED <<user_db, sock, next_id, now, codec, call, client>>

NextLock ==
    \/ \E c \in Conns : Accept(c)
    \/ \E c \in Conns : PeerClose(c)
    \/ \E c \in Conns : RecvFails(c)
    \/ \E c \in Conns : Close(c)
    \/ \E c \in Conns, request \in Requests : Enter(c, request)
    \/ \E c \in Conns : Leave(c)

\* the server with the threads of the connections interleaved at the
\* boundaries of the with block and at the server_send calls inside it
SpecLock == Init /\ [][NextLock]_vars

\* ------------------------------------------------------------- properties

\* the socket of connection c is connected: what is sent on it reaches the peer
Connected(c) == sock[c] = "open"

\* username has an account whose session_status is online
Online(username) ==
    username \in DOMAIN user_db /\ user_db[username].session_status = "online"

\* the outcome is a single response with the given op_code to connection c,
\* written when the socket of c is connected
Answers(outcome, c, op_code) ==
    /\ Len(outcome.sends) = 1
    /\ outcome.sends[1].to = c
    /\ outcome.sends[1].message.op_code = op_code
    /\ Connected(c) => Written(outcome.sends) = outcome.sends

\* the outcome leaves the user table and the registry as they are
ChangesNothing(outcome) ==
    outcome.db = user_db /\ outcome.registry = active_connections

\* connection c is in its receive loop: a request can be dispatched on it
Dispatching(c) == thread[c] = "running"

\* the last message of a mailbox
LastOf(messages) == messages[Len(messages)]

\* C1: when an online sender A sends to an existing recipient B whose
\* session_status is online, the message is appended to B's mailbox with
\* read = TRUE, B's unread count is unchanged and B's read count grows by
\* one; the handler's sends are the acknowledgment to the requester and then
\* a refresh_request to the connection registered for B, and both frames are
\* written when the two sockets are connected.
C1_OnlineRecipient ==
    \A c \in Conns, A \in Users, B \in Users, T \in Texts, ts \in now..MaxClock :
       (Dispatching(c) /\ Online(A) /\ Online(B)) =>
          LET before == user_db[B].messages
              result == handle_send_message(c, A, B, T, ts)
              after  == result.db[B].messages
          IN  /\ Len(after) = Len(before) + 1
              /\ SubSeq(after, 1, Len(before)) = before
              /\ LastOf(after).read = TRUE
              /\ UnreadCount(after) = UnreadCount(before)
              /\ ReadCount(after) = ReadCount(before) + 1
              /\ B \in DOMAIN active_connections
              /\ Len(result.sends) = 2
              /\ result.sends[2] = Send(active_connections[B], RefreshRequest)
              /\ (Connected(c) /\ Connected(active_connections[B]))
                    => Written(result.sends) = result.sends

\* C1 witness: B is online with a connected registered socket and holds a
\* message from the online sender A that is stored as read
C1_Witness ==
    \E A \in Users, B \in Users :
       /\ A # B /\ Online(A) /\ Online(B)
       /\ B \in DOMAIN active_connections /\ Connected(active_connections[B])
       /\ next_id = 2
       /\ Len(user_db[B].messages) = 1
       /\ user_db[B].messages[1].sender = A
       /\ user_db[B].messages[1].read = TRUE

\* C2: when an online sender A sends to an existing recipient B whose
\* session_status is offline, the message is appended to B's mailbox with
\* read = FALSE, B's unread count grows by one, and the handler sends no
\* refresh_request to any connection.
C2_OfflineRecipient ==
    \A c \in Conns, A \in Users, B \in Users, T \in Texts, ts \in now..MaxClock :
       (Dispatching(c) /\ Online(A) /\ B \in DOMAIN user_db /\ ~Online(B)) =>
          LET before == user_db[B].messages
              result == handle_send_message(c, A, B, T, ts)
              after  == result.db[B].messages
          IN  /\ Len(after) = Len(before) + 1
              /\ SubSeq(after, 1, Len(before)) = before
              /\ LastOf(after).read = FALSE
              /\ UnreadCount(after) = UnreadCount(before) + 1
              /\ ReadCount(after) = ReadCount(before)
              /\ \A i \in 1..Len(result.sends) :
                    result.sends[i].message.op_code # "refresh_request"

\* C2 witness: B is offline and holds an unread message from the online sender A
C2_Witness ==
    \E A \in Users, B \in Users :
       /\ A # B /\ Online(A) /\ B \in DOMAIN user_db /\ ~Online(B)
       /\ next_id = 2
       /\ Len(user_db[B].messages) = 1
       /\ user_db[B].messages[1].sender = A
       /\ user_db[B].messages[1].read = FALSE

\* C3: for every send_message whose sender is online and whose recipient
\* exists, the handler sends exactly one ok response to the requesting
\* connection, carrying the id of the new message and written when that
\* socket is connected; exactly one message with the given sender, recipient
\* and body is appended at the end of the recipient's mailbox; every other
\* mailbox, every session_status, every password hash, the set of accounts
\* and the session registry are unchanged.
C3_SendFrame ==
    \A c \in Conns, A \in Users, B \in Users, T \in Texts, ts \in now..MaxClock :
       (Dispatching(c) /\ Online(A) /\ B \in DOMAIN user_db) =>
          LET before == user_db[B].messages
              result == handle_send_message(c, A, B, T, ts)
              after  == result.db[B].messages
              new    == LastOf(after)
              oks    == {i \in 1..Len(result.sends) :
                           /\ result.sends[i].to = c
                           /\ result.sends[i].message.op_code = "ok"}
          IN  /\ oks = {1}
              /\ result.sends[1].message.payload.message_id = new.message_id
              /\ Connected(c) =>
                    /\ Len(Written(result.sends)) >= 1
                    /\ Written(result.sends)[1] = result.sends[1]
              /\ after = Append(before, new)
              /\ new.sender = A /\ new.recipient = B /\ new.message = T
              /\ \A i \in 1..Len(before) : before[i].message_id # new.message_id
              /\ DOMAIN result.db = DOMAIN user_db
              /\ \A u \in DOMAIN user_db :
                    /\ result.db[u].session_status = user_db[u].session_status
                    /\ result.db[u].hashed_password = user_db[u].hashed_password
                    /\ u # B => result.db[u].messages = user_db[u].messages
              /\ result.registry = active_connections

\* C3 witness: a mailbox holds two messages in the order in which they were
\* sent, the second one from a sender who is online to another user
C3_Witness ==
    \E A \in Users, B \in Users :
       /\ A # B /\ Online(A) /\ B \in DOMAIN user_db
       /\ Len(user_db[B].messages) = 2
       /\ user_db[B].messages[1].message_id = 1
       /\ user_db[B].messages[2].message_id = 2
       /\ user_db[B].messages[2].sender = A
       /\ user_db[B].messages[2].recipient = B
       /\ user_db[A].messages = <<>>

\* C4: a send_message whose sender has no account or is not online, or
\* whose recipient has no account, is answered with a single error response
\* and creates no message: the user table and the registry are unchanged.
C4_SendErrors ==
    \A c \in Conns, A \in Users, B \in Users, T \in Texts, ts \in now..MaxClock :
       (Dispatching(c) /\ (~Online(A) \/ B \notin DOMAIN user_db)) =>
          LET result == handle_send_message(c, A, B, T, ts)
          IN  Answers(result, c, "error") /\ ChangesNothing(result)

\* C4 witness: on a connected socket an online user and a username without
\* an account are at hand: a send from the missing user and a send to the
\* missing user are both answered with error
C4_Witness ==
    \E c \in Conns, A \in Users, B \in Users :
       /\ Dispatching(c) /\ Connected(c)
       /\ Online(A) /\ B \notin DOMAIN user_db
       /\ Answers(handle_send_message(c, B, A, "hi", now), c, "error")
       /\ Answers(handle_send_message(c, A, B, "hi", now), c, "error")

\* C5: in every reachable state create_account_username leaves the user
\* table and the session registry unchanged and answers exists when the
\* username has an account and ok when it has none.
C5_UsernameCheck ==
    \A c \in Conns, u \in Users :
       Dispatching(c) =>
          LET result == handle_account_creation_username(c, u)
          IN  /\ ChangesNothing(result)
              /\ Answers(result, c, IF u \in DOMAIN user_db THEN "exists" ELSE "ok")

\* C5 witness: a connected requester for whom one username is taken and
\* another one is free
C5_Witness ==
    \E c \in Conns, u \in Users, v \in Users :
       /\ Dispatching(c) /\ Connected(c)
       /\ u \in DOMAIN user_db /\ v \notin DOMAIN user_db
       /\ handle_account_creation_username(c, u).sends[1].message.op_code = "exists"
       /\ handle_account_creation_username(c, v).sends[1].message.op_code = "ok"

\* C6: create_account_password for a username without an account adds the
\* record of that user with the hash of the password, session_status offline
\* and an empty mailbox, leaves every other record and the registry alone and
\* answers ok, in every reachable state (so whether or not a username check
\* came first); for a username with an account it answers error and leaves
\* the user table, hence the existing record, and the registry unchanged.
C6_PasswordCommit ==
    \A c \in Conns, u \in Users, p \in Passwords :
       Dispatching(c) =>
          LET result == handle_account_creation_password(c, u, p)
          IN  IF u \notin DOMAIN user_db
              THEN /\ Answers(result, c, "ok")
                   /\ DOMAIN result.db = DOMAIN user_db \cup {u}
                   /\ result.db[u] = [hashed_password |-> hash_password(u, p),
                                      session_status  |-> "offline",
                                      messages        |-> <<>>]
                   /\ \A v \in DOMAIN user_db : result.db[v] = user_db[v]
                   /\ result.registry = active_connections
              ELSE /\ Answers(result, c, "error")
                   /\ ChangesNothing(result)

\* C6 witness: an account that one user created while another user's
\* record, with a session and a message, stayed as it was; a repeated
\* creation for the new account is answered with error
C6_Witness ==
    \E c \in Conns, u \in Users, v \in Users :
       /\ Dispatching(c) /\ Connected(c)
       /\ u # v /\ u \in DOMAIN user_db
       /\ user_db[u] = [hashed_password |-> hash_password(u, "p1"),
                        session_status  |-> "offline",
                        messages        |-> <<>>]
       /\ Online(v) /\ Len(user_db[v].messages) = 1
       /\ handle_account_creation_password(c, u, "p2").sends[1].message.op_code = "error"

\* the operations of the two-phase creation as answered to connection c
UsernameCheckAnswers(c, u, op_code) ==
    Answers(handle_account_creation_username(c, u), c, op_code)

PasswordCommitAnswers(c, u, p, op_code) ==
    Answers(handle_account_creation_password(c, u, p), c, op_code)

\* C7: for a username without an account the username check answers ok;
\* the create_account_password that follows that single check is answered
\* ok, and from the state it leaves every further username check answers
\* exists and every repeated create_account_password answers error, on
\* every connection and for every password.
C7_TwoPhase ==
    [][\A c \in Conns, u \in Users, p \in NewPasswords :
          (u \notin DOMAIN user_db /\ client_handler_create_account_password(c, u, p)) =>
             /\ UsernameCheckAnswers(c, u, "ok")
             /\ PasswordCommitAnswers(c, u, p, "ok")
             /\ \A d \in Conns :
                   /\ UsernameCheckAnswers(d, u, "exists")'
                   /\ \A q \in Passwords : PasswordCommitAnswers(d, u, q, "error")'
      ]_vars

\* C7 witness: the account of a user who had none when the server started
\* exists, and on a connected socket the second username check answers exists
\* and the repeated creation answers error
C7_Witness ==
    \E c \in Conns :
       /\ Dispatching(c) /\ Connected(c)
       /\ "u2" \in DOMAIN user_db
       /\ UsernameCheckAnswers(c, "u2", "exists")
       /\ PasswordCommitAnswers(c, "u2", "p1", "error")

\* C8: a login naming an existing account with the password whose hash is
\* the stored one sets that user's session_status to online, leaves the rest
\* of the user table alone, maps the username to the requesting connection in
\* the registry, leaving the other entries alone, and answers ok; a login
\* with an unknown username or another password answers error and changes
\* neither the user table nor the registry.
C8_Login ==
    \A c \in Conns, u \in Users, p \in Passwords :
       Dispatching(c) =>
          LET result == handle_login(c, u, p)
          IN  IF u \in DOMAIN user_db /\ user_db[u].hashed_password = hash_password(u, p)
              THEN /\ Answers(result, c, "ok")
                   /\ result.db = [user_db EXCEPT ![u].session_status = "online"]
                   /\ DOMAIN result.registry = DOMAIN active_connections \cup {u}
                   /\ result.registry[u] = c
                   /\ \A v \in DOMAIN active_connections \ {u} :
                         result.registry[v] = active_connections[v]
              ELSE /\ Answers(result, c, "error")
                   /\ ChangesNothing(result)

\* C8 witness: a user is online and registered on a connected socket in its
\* receive loop, where a login with the other password is answered with error
C8_Witness ==
    \E c \in Conns, u \in Users :
       /\ Dispatching(c) /\ Connected(c)
       /\ Online(u)
       /\ u \in DOMAIN active_connections /\ active_connections[u] = c
       /\ user_db[u].hashed_password = hash_password(u, "p1")
       /\ Answers(handle_login(c, u, "p2"), c, "error")
       /\ ChangesNothing(handle_login(c, u, "p2"))

\* C9: a login with a wrong password on an existing account and a login
\* naming an account that does not exist are answered with the same
\* response: op-code error, number 13, and the same message.
C9_LoginIndistinguishable ==
    \A c \in Conns, u \in Users, v \in Users, p \in Passwords, q \in Passwords :
       (/\ Dispatching(c)
        /\ u \in DOMAIN user_db
        /\ user_db[u].hashed_password # hash_password(u, p)
        /\ v \notin DOMAIN user_db) =>
          LET wrong   == handle_login(c, u, p).sends[1].message
              missing == handle_login(c, v, q).sends[1].message
          IN  /\ wrong.op_code = "error" /\ missing.op_code = "error"
              /\ op_code_to_number[wrong.op_code] = 13
              /\ wrong = missing

\* the six operations that read or change the mailbox of the user they name
MailboxOutcomes(c, u) ==
    {handle_retrieve_unread_count(c, u)}
    \cup {handle_send_message(c, u, r, t, now) : r \in Users, t \in Texts}
    \cup {handle_read_message(c, u, m) : m \in MessageIds}
    \cup {handle_load_unread_messages(c, u, n) : n \in Counts}
    \cup {handle_load_read_messages(c, u, n) : n \in Counts}
    \cup {handle_delete_messages(c, u, ids) : ids \in SUBSET MessageIds}

\* C10: a connection that has just been accepted has completed no login;
\* every send_message, read_message, load_unread_messages, load_read_messages,
\* delete_messages and retrieve_unread_count request it sends is answered
\* with error and changes no state, whoever the request names, even a user
\* who is online through another connection.
C10_RequiresOwnLogin ==
    [][\A c \in Conns :
          Accept(c) =>
             \A u \in Users :
                (\A outcome \in MailboxOutcomes(c, u) :
                    Answers(outcome, c, "error") /\ ChangesNothing(outcome))'
      ]_vars

\* connection c is the one through which user u is logged in: u is online
\* and the session registry maps u to c
Authenticated(c, u) ==
    /\ Online(u)
    /\ u \in DOMAIN active_connections
    /\ active_connections[u] = c

\* C11: a delete_account or a quit that names user u and arrives on a
\* connection that is not the one through which u is logged in (u has no
\* account, is offline, or is registered on another connection, which covers
\* a connection that never logged in) is answered with error and leaves the
\* user table and the registry unchanged.
C11_DeleteQuitRequireAuthenticated ==
    \A c \in Conns, u \in Users :
       (Dispatching(c) /\ ~Authenticated(c, u)) =>
          /\ Answers(handle_delete_account(c, u), c, "error")
          /\ ChangesNothing(handle_delete_account(c, u))
          /\ Answers(handle_quit(c, u), c, "error")
          /\ ChangesNothing(handle_quit(c, u))

\* the positions of a mailbox that hold a message with the given id
PositionsOf(messages, message_id) ==
    {i \in 1..Len(messages) : messages[i].message_id = message_id}

\* C12: read_message for an online user and a message id present in that
\* user's mailbox sets read = TRUE on exactly the message with that id,
\* leaves every other message of every mailbox, the accounts and the
\* registry as they are and answers ok; when the id is not in the mailbox it
\* answers error and changes nothing.
C12_ReadMessage ==
    \A c \in Conns, u \in Users, id \in MessageIds :
       (Dispatching(c) /\ Online(u)) =>
          LET before == user_db[u].messages
              result == handle_read_message(c, u, id)
              at     == PositionsOf(before, id)
          IN  IF at # {}
              THEN /\ Cardinality(at) = 1
                   /\ Answers(result, c, "ok")
                   /\ DOMAIN result.db = DOMAIN user_db
                   /\ \A v \in DOMAIN user_db \ {u} : result.db[v] = user_db[v]
                   /\ result.db[u].session_status = user_db[u].session_status
                   /\ result.db[u].hashed_password = user_db[u].hashed_password
                   /\ Len(result.db[u].messages) = Len(before)
                   /\ \A i \in 1..Len(before) :
                         result.db[u].messages[i] =
                            IF i \in at THEN [before[i] EXCEPT !.read = TRUE]
                            ELSE before[i]
                   /\ result.registry = active_connections
              ELSE /\ Answers(result, c, "error")
                   /\ ChangesNothing(result)

\* C12 witness: an online user holds two messages, the second marked as
\* read and the first still unread although it was stored unread as well
C12_Witness ==
    \E u \in Users :
       /\ Online(u)
       /\ Len(user_db[u].messages) = 2
       /\ user_db[u].messages[1].read = FALSE
       /\ user_db[u].messages[2].read = TRUE
       /\ \E v \in Users : v # u /\ v \in DOMAIN user_db /\ user_db[v].messages = <<>>

\* the effect C13 describes on the user table: exactly the messages of u
\* whose ids are requested are gone, the others stay in their order, and
\* nothing else changes
DeleteEffect(result, u, ids) ==
    /\ DOMAIN result.db = DOMAIN user_db
    /\ result.db[u].messages =
          SelectSeq(user_db[u].messages, LAMBDA m : m.message_id \notin ids)
    /\ result.db[u].session_status = user_db[u].session_status
    /\ result.db[u].hashed_password = user_db[u].hashed_password
    /\ \A v \in DOMAIN user_db \ {u} : result.db[v] = user_db[v]
    /\ result.registry = active_connections
    /\ (\A i \in 1..Len(user_db[u].messages) : user_db[u].messages[i].message_id \notin ids)
          => result.db[u].messages = user_db[u].messages

\* the response C13 describes: ok with the removed ids, in mailbox order
DeleteResponse(result, u, ids) ==
    result.sends[1].message.payload.deleted_message_ids =
       IdsOf(SelectSeq(user_db[u].messages, LAMBDA m : m.message_id \in ids))

\* C13: delete_messages for an online user removes from that user's mailbox
\* exactly the messages whose ids are requested, keeps the others in order,
\* touches nothing else, and answers the requester (the frame is written
\* when its socket is connected) with ok and the list of the ids removed,
\* which is empty when no requested id is in the mailbox.
C13_DeleteMessages ==
    \A c \in Conns, u \in Users, ids \in SUBSET MessageIds :
       (Dispatching(c) /\ Online(u)) =>
          LET result == handle_delete_messages(c, u, ids)
          IN  /\ DeleteEffect(result, u, ids)
              /\ DeleteResponse(result, u, ids)
              /\ Answers(result, c, "ok")

\* C14: delete_account for an existing user removes that user's record with
\* its mailbox and that user's registry entry, leaves every other record and
\* every other registry entry unchanged and answers ok; for a username with
\* no account it answers error and changes nothing.
C14_DeleteAccount ==
    \A c \in Conns, u \in Users :
       Dispatching(c) =>
          LET result == handle_delete_account(c, u)
          IN  IF u \in DOMAIN user_db
              THEN /\ Answers(result, c, "ok")
                   /\ DOMAIN result.db = DOMAIN user_db \ {u}
                   /\ \A v \in DOMAIN result.db : result.db[v] = user_db[v]
                   /\ DOMAIN result.registry = DOMAIN active_connections \ {u}
                   /\ \A v \in DOMAIN result.registry :
                         result.registry[v] = active_connections[v]
              ELSE /\ Answers(result, c, "error")
                   /\ ChangesNothing(result)

\* C15: a quit naming an existing user sets that user's session_status to
\* offline and changes nothing else in the user table; handled on a connected
\* socket it writes the ok response and then removes the user's registry
\* entry, leaving the other entries alone; the step leaves the socket as it
\* was and ends the receive loop, and a socket is closed only by the thread
\* whose loop has ended, so after the response was written.
C15_Quit ==
    [][/\ \A c \in Conns, u \in Users :
             (u \in DOMAIN user_db /\ client_handler_quit(c, u)) =>
                /\ user_db' = [user_db EXCEPT ![u].session_status = "offline"]
                /\ Len(handle_quit(c, u).sends) = 1
                /\ handle_quit(c, u).sends[1].to = c
                /\ handle_quit(c, u).sends[1].message.op_code = "ok"
                /\ Connected(c) =>
                      /\ Written(handle_quit(c, u).sends) = handle_quit(c, u).sends
                      /\ DOMAIN active_connections' = DOMAIN active_connections \ {u}
                      /\ \A v \in DOMAIN active_connections' :
                            active_connections'[v] = active_connections[v]
                /\ sock' = sock
                /\ thread'[c] = "done"
       /\ \A c \in Conns :
             (sock[c] # "closed" /\ sock'[c] = "closed") => thread[c] = "done"
      ]_vars

\* C15 witness: a user who holds a message stored as read, so who has been
\* online, is offline and unregistered again, and the only connection that
\* was ever accepted has been closed after its loop ended
C15_Witness ==
    \E c \in Conns, u \in Users :
       /\ u \in DOMAIN user_db /\ ~Online(u)
       /\ Len(user_db[u].messages) = 1 /\ user_db[u].messages[1].read = TRUE
       /\ u \notin DOMAIN active_connections
       /\ sock[c] = "closed" /\ thread[c] = "done"
       /\ \A d \in Conns \ {c} : sock[d] = "idle"

\* the list C16 describes for the mailbox of u, read flag flag and count n:
\* at most n messages, all from the mailbox and all with the flag, most
\* recent first, and none of the matching messages left out is more recent
\* than one of the list
MostRecent(list, u, flag, n) ==
    LET matching == SelectSeq(user_db[u].messages, LAMBDA m : m.read = flag)
        listed   == {list[i] : i \in 1..Len(list)}
        all      == {matching[i] : i \in 1..Len(matching)}
    IN  /\ Len(list) = Min(n, Len(matching))
        /\ Cardinality(listed) = Len(list)
        /\ listed \subseteq all
        /\ \A i \in 1..Len(list), j \in 1..Len(list) :
              i < j => list[i].timestamp >= list[j].timestamp
        /\ \A m \in all \ listed, k \in listed : m.timestamp <= k.timestamp

\* C16: load_unread_messages and load_read_messages for an online user and
\* a count n answer the requester (the frame is written when its socket is
\* connected) with ok and the n most recent messages of that user's mailbox
\* that have read = FALSE, respectively read = TRUE, most recent first, and
\* change no read flag and no other state.
C16_LoadMessages ==
    \A c \in Conns, u \in Users, n \in Counts :
       (Dispatching(c) /\ Online(u)) =>
          LET unread == handle_load_unread_messages(c, u, n)
              read   == handle_load_read_messages(c, u, n)
          IN  /\ ChangesNothing(unread) /\ ChangesNothing(read)
              /\ MostRecent(unread.sends[1].message.payload.messages, u, FALSE, n)
              /\ MostRecent(read.sends[1].message.payload.messages, u, TRUE, n)
              /\ Answers(unread, c, "ok") /\ Answers(read, c, "ok")

\* C17: list_accounts on any connection in its receive loop, whether or not
\* a user is logged in through it, changes no state and answers the
\* requester (the frame is written when its socket is connected) with ok
\* and exactly the usernames that have an account.
C17_ListAccounts ==
    \A c \in Conns :
       Dispatching(c) =>
          LET result == handle_list_accounts(c)
          IN  /\ ChangesNothing(result)
              /\ result.sends[1].message.payload.accounts = DOMAIN user_db
              /\ Answers(result, c, "ok")

\* the threads that are inside a request handler
InHandler == {c \in Conns : thread[c] = "handling"}

\* C18: at every instant at most one connection thread is inside a request
\* handler, and it is the thread that holds server_lock; a thread waiting
\* for request bytes does not hold the lock; every step that changes the
\* user table or the session registry, and every step that writes a
\* response, is taken by the thread holding the lock.
C18_OneHandlerAtATime ==
    [][/\ (Cardinality(InHandler) <= 1)'
       /\ (\A c \in Conns : thread[c] = "handling" <=> server_lock = c)'
       /\ (\A c \in Conns : thread[c] = "running" => server_lock # c)'
       /\ (user_db' # user_db \/ active_connections' # active_connections) =>
             \E c \in Conns : server_lock = c \/ server_lock' = c
       /\ \A c \in Conns : Leave(c) => server_lock = c
      ]_vars

\* C18 witness: one thread is inside a handler, holding the lock with a
\* response still to write, while the other thread waits outside the lock
C18_Witness ==
    \E c \in Conns, d \in Conns :
       /\ c # d
       /\ thread[c] = "handling" /\ server_lock = c
       /\ Len(held[c].plan.sends) = 2
       /\ thread[d] = "running" /\ Connected(d)

\* C19: requests of concurrent connections are atomic and totally ordered
\* by the lock: a handler starts only when no other handler is part-way
\* through, so it never reads another request's partial update; when it
\* ends, the user table is the one the handler computed from the state it
\* started in, untouched by any other thread in between, the responses are
\* those of that computation, and the registry and the fate of the thread
\* are those of the handler run in one piece (the registry whenever the
\* sockets it writes to fail or not as they did when it started).
C19_AtomicRequests ==
    [][\A c \in Conns :
          /\ (thread[c] = "running" /\ thread'[c] = "handling") =>
                /\ InHandler = {}
                /\ user_db' = held'[c].plan.db
          /\ (thread[c] = "handling" /\ thread'[c] # "handling") =>
                LET plan == held[c].plan
                IN  /\ user_db = plan.db /\ user_db' = plan.db
                    /\ Raises(plan.sends) = held[c].raised =>
                          active_connections' = plan.registry
                    /\ thread'[c] = IF Raises(plan.sends) \/ held[c].exits
                                    THEN "done" ELSE "running"
                    /\ \A d \in Conns \ {c} : thread'[d] = thread[d]
      ]_vars

\* C19 witness: two connections have each had requests handled, one user
\* being logged in through each, and a message sent through one of them is
\* in the mailbox of the other's user, while a third request is part-way
C19_Witness ==
    \E c \in Conns, d \in Conns, u \in Users, v \in Users :
       /\ c # d /\ u # v
       /\ Authenticated(c, u) /\ Authenticated(d, v)
       /\ Len(user_db[v].messages) = 1 /\ user_db[v].messages[1].sender = u
       /\ thread[c] = "handling" /\ thread[d] = "running"

\* the connection has ended: its thread has left the loop and closed the socket
Ended(c) == thread[c] = "done" /\ sock[c] = "closed"

\* C20: in every reachable state no registry entry refers to a connection
\* that has ended, whether it ended by quit, by a peer disconnect or by a
\* socket error: every entry refers to a connection the server still holds
\* open.
C20_RegistryLifetime ==
    \A u \in DOMAIN active_connections : ~Ended(active_connections[u])

\* no connection has been accepted yet: the server has handled no request
AtStart == \A c \in Conns : sock[c] = "idle" /\ thread[c] = "none"

\* C21: at process start, before any request is handled, the session
\* registry is empty and every user of the loaded user table has
\* session_status offline, whatever status the previous run persisted.
C21_StartState ==
    AtStart =>
       /\ DOMAIN active_connections = {}
       /\ \A u \in DOMAIN user_db : user_db[u].session_status = "offline"

\* C21 witness: the server has started from the table in which the previous
\* run persisted u1 as online
C21_Witness ==
    /\ AtStart
    /\ \E table \in PersistedTables :
          /\ "u1" \in DOMAIN table /\ table["u1"].session_status = "online"
          /\ DOMAIN user_db = DOMAIN table
          /\ user_db["u1"].hashed_password = table["u1"].hashed_password
          /\ user_db["u1"].session_status = "offline"

\* the step in which the thread of connection c handles the given request
Handles(c, request) ==
    CASE request.op_code = "create_account_username" ->
            client_handler_create_account_username(c, request.username)
      [] request.op_code = "create_account_password" ->
            client_handler_create_account_password(c, request.username, request.password)
      [] request.op_code = "login" ->
            client_handler_login(c, request.username, request.password)
      [] request.op_code = "retrieve_unread_count" ->
            client_handler_retrieve_unread_count(c, request.username)
      [] request.op_code = "send_message" ->
            client_handler_send_message(c, request.sender, request.recipient,
                                        request.message, now)
      [] request.op_code = "read_message" ->
            client_handler_read_message(c, request.username, request.message_id)
      [] request.op_code = "load_unread_messages" ->
            client_handler_load_unread_messages(c, request.username,
                                                request.number_of_messages)
      [] request.op_code = "load_read_messages" ->
            client_handler_load_read_messages(c, request.username,
                                              request.number_of_messages)
      [] request.op_code = "delete_messages" ->
            client_handler_delete_messages(c, request.username, request.message_ids)
      [] request.op_code = "delete_account" ->
            client_handler_delete_account(c, request.username)
      [] request.op_code = "list_accounts" ->
            client_handler_list_accounts(c)
      [] request.op_code = "quit" ->
            client_handler_quit(c, request.username)
      [] OTHER ->
            client_handler_unknown(c, request.op_code)

\* the request, handled now on connection c, is answered with an error response
AnsweredWithError(c, request) ==
    Answers(HandlerOutcome(c, request), c, "error")

\* C22: every request that is answered with an error response on a
\* connected socket leaves the requesting connection open and its thread in
\* the receive loop, where the next request is read and dispatched.
C22_ErrorKeepsConnection ==
    [][\A c \in Conns, request \in Requests :
          (Connected(c) /\ AnsweredWithError(c, request) /\ Handles(c, request)) =>
             /\ sock'[c] = "open"
             /\ thread'[c] = "running"
      ]_vars

\* C23: a transport failure ends only the connection it occurs on: a
\* send_message handled on a connected socket leaves the sender's
\* connection open and its thread in the receive loop, also when the
\* refresh_request cannot be written to the recipient's registered
\* connection, and it leaves every other connection as it was.
C23_FailureIsolation ==
    [][\A c \in Conns, A \in Users, B \in Users, T \in Texts :
          (Connected(c) /\ client_handler_send_message(c, A, B, T, now)) =>
             /\ sock' = sock
             /\ thread'[c] = "running"
             /\ \A d \in Conns \ {c} : thread'[d] = thread[d]
      ]_vars

\* the requests for the five operations on the mailbox of the named user
\* that C24 lists
MailboxRequests(u) ==
    {request \in Requests :
        /\ request.op_code \in {"retrieve_unread_count", "read_message",
                                "load_unread_messages", "load_read_messages",
                                "delete_messages"}
        /\ request.username = u}

\* C24: whenever a request is answered with an error response, the user
\* table and the session registry it leaves are those it found; and a
\* retrieve_unread_count, read_message, load_unread_messages,
\* load_read_messages or delete_messages naming a user who has no account or
\* is not online is always answered with error.
C24_ErrorsChangeNothing ==
    \A c \in Conns :
       Dispatching(c) =>
          /\ \A request \in Requests :
                LET outcome == HandlerOutcome(c, request)
                IN  (\E i \in 1..Len(outcome.sends) :
                        outcome.sends[i].message.op_code = "error")
                       => (Answers(outcome, c, "error") /\ ChangesNothing(outcome))
          /\ \A u \in Users :
                ~Online(u) =>
                   \A request \in MailboxRequests(u) :
                      Answers(HandlerOutcome(c, request), c, "error")

\* C24 witness: an offline user holds a message that a delete_messages
\* naming it would remove, another username has no account, and requests
\* naming either are answered with error on a connected socket
C24_Witness ==
    \E c \in Conns, u \in Users, v \in Users :
       /\ Dispatching(c) /\ Connected(c)
       /\ u \in DOMAIN user_db /\ ~Online(u)
       /\ Len(user_db[u].messages) = 1 /\ user_db[u].messages[1].message_id = 1
       /\ v \notin DOMAIN user_db
       /\ Answers(handle_delete_messages(c, u, {1}), c, "error")
       /\ Answers(handle_read_message(c, v, 1), c, "error")

\* the places of the stored messages: user and position in that user's mailbox
Places ==
    UNION {{<<u, i>> : i \in 1..Len(user_db[u].messages)} : u \in DOMAIN user_db}

MessageAt(place) == user_db[place[1]].messages[place[2]]

\* C25: in every reachable state each message in the mailbox of user u has
\* recipient = u, and two different places of the mailboxes never hold the
\* same message nor the same message_id.
C25_MailboxOwnership ==
    /\ \A place \in Places : MessageAt(place).recipient = place[1]
    /\ \A p \in Places, q \in Places :
          p # q => /\ MessageAt(p) # MessageAt(q)
                   /\ MessageAt(p).message_id # MessageAt(q).message_id

\* C25 witness: two users each hold one message, sent by the same sender
\* with the same text
C25_Witness ==
    \E u \in Users, v \in Users :
       /\ u # v /\ u \in DOMAIN user_db /\ v \in DOMAIN user_db
       /\ Len(user_db[u].messages) = 1 /\ Len(user_db[v].messages) = 1
       /\ user_db[u].messages[1].sender = u
       /\ user_db[v].messages[1].sender = u
       /\ user_db[u].messages[1].message = user_db[v].messages[1].message


\* ------------------------------------------------ the codec, byte by byte

\* (29).to_bytes(1, "big"): the first byte of every frame
magic_number == 29

\* a long str value has this many characters
LongLen == 126
\* a stream is cut after one of its first MaxCut bytes, or before its last
MaxCut == 4
\* the frames a peer writes before the server reads
MaxFrames == 2

\* Python values: a str is the sequence of its code points
PyStr(chars) == [type |-> "str", chars |-> chars]
PyInt(n) == [type |-> "int", n |-> n]
PyList(items) == [type |-> "list", items |-> items]
PyDicts == [type |-> "dicts"]
py_eq(a, b) == a.type = b.type /\ a = b

\* index of the string-field dictionary
field_name_index ==
    [username |-> 0, hashed_password |-> 1, session_status |-> 2, messages |-> 3,
     message_id |-> 4, recipient |-> 5, sender |-> 6, message |-> 7, read |-> 8,
     timestamp |-> 9, password |-> 10]


RECURSIVE varint_encode(_)
varint_encode(number) ==
    IF number >= 128
    THEN <<(number % 128) + 128>> \o varint_encode(number \div 128)
    ELSE <<number>>

\* shift += 8 in place of shift += 7
RECURSIVE varint_value_shift_8(_, _)
varint_value_shift_8(data, k) ==
    IF k = 0 THEN 0 ELSE (data[1] % 128) + 256 * varint_value_shift_8(Tail(data), k - 1)

RECURSIVE varint_value(_, _)
varint_value(data, k) ==
    IF k = 0 THEN 0 ELSE (data[1] % 128) + 128 * varint_value(Tail(data), k - 1)

\* a varint_decode that returns what it has when the bytes run out
varint_decode_lenient(data) ==
    LET ends == {k \in 1..Len(data) : data[k] < 128}
        k    == IF ends = {} THEN Len(data)
                ELSE CHOOSE e \in ends : \A other \in ends : e <= other
    IN  [raises |-> "", result |-> varint_value(data, k), num_bytes |-> k]

\* varint_decode(data): (result, num_bytes), or ValueError when no byte of
\* data has the high bit clear
varint_decode(data) ==
    LET ends == {k \in 1..Len(data) : data[k] < 128}
    IN  IF ends = {}
        THEN [raises |-> "ValueError", result |-> 0, num_bytes |-> 0]
        ELSE LET k == CHOOSE e \in ends : \A other \in ends : e <= other
             IN  [raises |-> "", result |-> varint_value(data, k), num_bytes |-> k]

pack_two_nibbles(type, index) == type * 16 + index
unpack_two_nibbles(byte) == <<byte \div 16, byte % 16>>

\* str.encode('utf-8'), one code point
utf8_code_point(cp) ==
    IF cp < 128 THEN <<cp>>
    ELSE IF cp < 2048 THEN <<192 + (cp \div 64), 128 + (cp % 64)>>
    ELSE IF cp < 65536
         THEN <<224 + (cp \div 4096), 128 + ((cp \div 64) % 64), 128 + (cp % 64)>>
         ELSE <<240 + (cp \div 262144), 128 + ((cp \div 4096) % 64),
                128 + ((cp \div 64) % 64), 128 + (cp % 64)>>

\* str.encode('utf-8'): the code points' bytes in order
RECURSIVE encode_utf8(_)
encode_utf8(chars) ==
    IF chars = <<>> THEN <<>>
    ELSE IF Len(chars) = 1 THEN utf8_code_point(chars[1])
    ELSE LET half == Len(chars) \div 2
         IN  encode_utf8(SubSeq(chars, 1, half))
             \o encode_utf8(SubSeq(chars, half + 1, Len(chars)))

\* a length taken in characters, not in bytes
len_in_characters(chars, encoded_str) == Len(chars)
\* num_bytes = len(encoded_str)
num_bytes_of(chars, encoded_str) == Len(encoded_str)

\* get_fields: the payload without the keys protocol_version and op_code
get_fields(payload) ==
    SelectSeq(payload, LAMBDA item : item.field \notin {"protocol_version", "op_code"})

\* one turn of send's loop over the fields.  An int and a list value look
\* the field's name up in field_names_reverse_mapping, whose keys are numbers
encode_field(field, value) ==
    CASE value.type = "int"  -> [raises |-> "KeyError", data |-> <<>>]
      [] value.type = "str"  ->
            IF field \in DOMAIN field_name_index
            THEN LET encoded_str == encode_utf8(value.chars)
                 IN  [raises |-> "",
                      data |-> <<pack_two_nibbles(1, field_name_index[field])>>
                               \o varint_encode(num_bytes_of(value.chars, encoded_str))
                               \o encoded_str]
            ELSE [raises |-> "KeyError", data |-> <<>>]
      [] value.type = "list" -> [raises |-> "KeyError", data |-> <<>>]
      [] OTHER               -> [raises |-> "ValueError", data |-> <<>>]

RECURSIVE encode_fields(_)
encode_fields(fields) ==
    IF fields = <<>> THEN [raises |-> "", data |-> <<>>]
    ELSE LET first == encode_field(Head(fields).field, Head(fields).value)
             rest  == encode_fields(Tail(fields))
         IN  IF first.raises # "" THEN first
             ELSE IF rest.raises # "" THEN rest
             ELSE [raises |-> "", data |-> first.data \o rest.data]

\* WireProtocol.send(message) up to sock.sendall: the exception it raises,
\* or the bytes it hands to the socket
send(message) ==
    IF message.op_code \notin DOMAIN op_code_to_number
    THEN [raises |-> "KeyError", data |-> <<>>]
    ELSE LET op_code == varint_encode(op_code_to_number[message.op_code])
             fields  == encode_fields(get_fields(message.payload))
         IN  IF fields.raises # "" THEN fields
             ELSE [raises |-> "",
                   data |-> <<magic_number>> \o op_code
                            \o varint_encode(Len(fields.data)) \o fields.data]

\* recv_exact(n) on a socket whose peer has written stream and then shut
\* its side down: the n bytes, or ConnectionError once recv returns b""
recv_exact(stream, n) ==
    IF Len(stream) >= n
    THEN [raises |-> "", data |-> SubSeq(stream, 1, n), rest |-> SubSeq(stream, n + 1, Len(stream))]
    ELSE [raises |-> "ConnectionError", data |-> <<>>, rest |-> <<>>]

None == -1

\* the items of a list value: i after the for loop over range(count), or
\* None when varint_decode raises
RECURSIVE skip_items(_, _, _)
skip_items(field_data, i, count) ==
    IF count = 0 THEN i
    ELSE LET str_len == varint_decode(SubSeq(field_data, i + 1, Len(field_data)))
         IN  IF str_len.raises # "" THEN None
             ELSE skip_items(field_data, i + str_len.num_bytes + str_len.result, count - 1)

\* receive's while loop over field_data, from index i on: "ends" when i
\* passes the end or an exception leaves the loop (a failing .decode('utf-8')
\* included), "hangs" when a turn leaves i where it was.  type_value and
\* field_length are set once and never reset
RECURSIVE parse_fields(_, _, _, _)
parse_fields(field_data, i, type_value, field_length) ==
    IF i >= Len(field_data) THEN "ends"
    ELSE IF type_value = None
    THEN parse_fields(field_data, i + 1, unpack_two_nibbles(field_data[i + 1])[1], None)
    ELSE IF field_length = None
    THEN LET length == varint_decode(SubSeq(field_data, i + 1, Len(field_data)))
         IN  IF length.raises # "" THEN "ends"
             ELSE parse_fields(field_data, i + length.num_bytes, type_value, length.result)
    ELSE CASE type_value = 0 ->
                LET value == varint_decode(SubSeq(field_data, i + 1, Len(field_data)))
                IN  IF value.raises # "" THEN "ends"
                    ELSE parse_fields(field_data, i + value.num_bytes, type_value, field_length)
           [] type_value = 1 ->
                IF field_length = 0 THEN "hangs"
                ELSE parse_fields(field_data, i + field_length, type_value, field_length)
           [] type_value = 2 ->
                IF field_length = 0 THEN "hangs"
                ELSE LET j == skip_items(field_data, i, field_length)
                     IN  IF j = None THEN "ends"
                         ELSE parse_fields(field_data, j, type_value, field_length)
           [] OTHER -> "ends"

Returns(message, rest) == [outcome |-> "returns", message |-> message, rest |-> rest]
RaisesError(error, rest) == [outcome |-> "raises", error |-> error, rest |-> rest]
Hangs(rest) == [outcome |-> "hangs", rest |-> rest]

\* the return statement of receive
received_message(op_code, payload_length) ==
    [op_code |-> PyInt(op_code), payload_length |-> payload_length, status |-> "received"]

\* payload_length_bytes = self.recv_exact(1)
read_payload_length(stream) == recv_exact(stream, 1)

\* except Exception has swallowed a failure in the header: the return
\* statement reads op_code and payload_length, of which one is unbound
header_swallowed(op_code, rest) == RaisesError("UnboundLocalError", rest)

\* except Exception swallows the failure of recv_exact for field_data
field_data_missing(op_code, payload_length) ==
    Returns(received_message(op_code, payload_length), <<>>)

\* WireProtocol.receive() on the stream.  A first byte other than
\* magic_number raises ConnectionError inside a try whose except clause
\* logs it, and receive goes on
receive(stream) ==
    LET magic == recv_exact(stream, 1)
    IN  IF magic.raises # "" THEN RaisesError(magic.raises, magic.rest)
        ELSE
        LET op_code_bytes == recv_exact(magic.rest, 1)
        IN  IF op_code_bytes.raises # "" THEN RaisesError("UnboundLocalError", op_code_bytes.rest)
            ELSE
            LET op_code == varint_decode(op_code_bytes.data)
            IN  IF op_code.raises # "" THEN RaisesError("UnboundLocalError", op_code_bytes.rest)
                ELSE
                LET payload_length_bytes == read_payload_length(op_code_bytes.rest)
                IN  IF payload_length_bytes.raises # ""
                    THEN header_swallowed(op_code.result, payload_length_bytes.rest)
                    ELSE
                    LET payload_length == varint_decode(payload_length_bytes.data)
                    IN  IF payload_length.raises # ""
                        THEN header_swallowed(op_code.result, payload_length_bytes.rest)
                        ELSE
                        LET field_data == recv_exact(payload_length_bytes.rest, payload_length.result)
                            message == received_message(op_code.result, payload_length.result)
                        IN  IF field_data.raises # ""
                            THEN field_data_missing(op_code.result, payload_length.result)
                            ELSE IF parse_fields(field_data.data, 0, None, None) = "hangs"
                            THEN Hangs(field_data.rest)
                            ELSE Returns(message, field_data.rest)

\* the op_codes client_handler compares request.get("op_code") with
HandlerNames ==
    {"create_account_username", "create_account_password", "login",
     "retrieve_unread_count", "send_message", "read_message", "load_unread_messages",
     "load_read_messages", "delete_messages", "delete_account", "list_accounts", "quit"}

\* the branch of client_handler's if/elif chain the request takes
dispatch(request) ==
    IF \E name \in HandlerNames : py_eq(request.op_code, PyStr(name))
    THEN "handler"
    ELSE "unknown_op_code"

\* ---- the inputs of the codec
Long == [i \in 1..LongLen |-> 97]
Strs == {<<>>, <<97>>, <<233>>, Long}
Values ==
    {PyStr(s) : s \in Strs} \cup {PyInt(0), PyInt(300)}
    \cup {PyList(<<>>), PyList(<<PyStr(<<97>>)>>), PyDicts}
Fields == {"username", "message", "unread_count"}
Items == [field : Fields, value : Values]
Payloads ==
    {<<>>} \cup {<<a>> : a \in Items}
    \cup {pair \in Items \X Items : pair[1].field # pair[2].field}
FrameOps == {"login", "send_message", "refresh_request", "bogus"}
Messages == [op_code : FrameOps, payload : Payloads]
\* what a peer writes behind an earlier frame
Pipelined == {[op_code |-> "quit", payload |-> <<[field |-> "username", value |-> PyStr(<<97>>)]>>]}
WrongMagic == {0, 28, 30, 255}

\* a peer's WireProtocol.send(message)
wire_send(message) ==
    /\ codec.pc \in {"idle", "sent"}
    /\ codec.reads = 0 /\ codec.damage = "none"
    /\ Len(codec.sent) < MaxFrames
    /\ message \in (IF codec.sent = <<>> THEN Messages ELSE Pipelined)
    /\ LET frame == send(message)
           entry == [message |-> message, raises |-> frame.raises, data |-> frame.data]
       IN  codec' = IF frame.raises # ""
                    THEN [codec EXCEPT !.pc = "raised", !.raised = frame.raises,
                                       !.sent = Append(@, entry)]
                    ELSE [codec EXCEPT !.pc = "sent",
                                       !.sent = Append(@, entry),
                                       !.stream = @ \o frame.data]
    /\ UNCHANGED <<user_db, active_connections, sock, thread, next_id, now, server_lock, held, call, client>>

\* the peer goes away with only the first k bytes of its frame written
truncate(k) ==
    /\ codec.pc = "sent" /\ codec.reads = 0 /\ codec.damage = "none"
    /\ Len(codec.sent) = 1
    /\ k < Len(codec.stream)
    /\ k \in 0..MaxCut \cup {Len(codec.stream) - 1}
    /\ codec' = [codec EXCEPT !.stream = SubSeq(@, 1, k), !.damage = "truncated"]
    /\ UNCHANGED <<user_db, active_connections, sock, thread, next_id, now, server_lock, held, call, client>>

\* a peer that does not speak the protocol: another first byte
wrong_magic(byte) ==
    /\ codec.pc = "sent" /\ codec.reads = 0 /\ codec.damage = "none"
    /\ codec' = [codec EXCEPT !.stream = <<byte>> \o Tail(@), !.damage = "magic"]
    /\ UNCHANGED <<user_db, active_connections, sock, thread, next_id, now, server_lock, held, call, client>>

\* one turn of client_handler's loop: receive, then the if/elif chain on a
\* returned request; an exception out of receive ends the thread, whose
\* finally clause closes the socket
client_handler_receive ==
    /\ codec.pc = "sent"
    /\ LET request == receive(codec.stream)
       IN  codec' = [codec EXCEPT
                        !.stream = request.rest,
                        !.reads = IF @ < MaxFrames THEN @ + 1 ELSE @,
                        !.received = request,
                        !.handler = IF request.outcome = "returns"
                                    THEN dispatch(request.message) ELSE "",
                        !.conn = IF request.outcome = "raises" THEN "closed" ELSE "open",
                        !.pc = CASE request.outcome = "returns" -> "sent"
                                 [] request.outcome = "raises"  -> "closed"
                                 [] request.outcome = "hangs"   -> "hung"]
    /\ UNCHANGED <<user_db, active_connections, sock, thread, next_id, now, server_lock, held, call, client>>

InitCodec == Init /\ DOMAIN user_db = {}

NextCodec ==
    \/ \E message \in Messages \cup Pipelined : wire_send(message)
    \/ \E k \in 0..(LongLen + 16) : truncate(k)
    \/ \E byte \in WrongMagic : wrong_magic(byte)
    \/ client_handler_receive

SpecCodec == InitCodec /\ [][NextCodec]_vars


\* ------------------------------------------------- properties of the codec

\* the server has made its first read of the stream
FirstRead == codec.reads = 1

\* C26: when the first byte of an incoming frame is not the magic byte 29
\* (0x1D), receive raises instead of returning a message, the if/elif chain
\* of client_handler is not entered for that frame, and the socket is closed.
C26_WrongMagicFails ==
    (codec.damage = "magic" /\ FirstRead) =>
        /\ codec.received.outcome = "raises"
        /\ codec.handler = ""
        /\ codec.conn = "closed"


\* the first call of send, and the request the server's first read returned
FirstSent == codec.sent[1]
\* the fields of a returned request
FieldsOf(request) == IF "payload" \in DOMAIN request THEN request.payload ELSE <<>>

\* a valid frame: an op-code of the table and integer, string and
\* list-of-string fields named in the field dictionary
ValidFrame(message) ==
    /\ message.op_code \in DOMAIN op_code_to_number
    /\ \A k \in 1..Len(message.payload) :
          /\ message.payload[k].field \in DOMAIN field_name_index
          /\ message.payload[k].value.type \in {"int", "str", "list"}

\* C27: for every valid frame f, send(f) writes a frame, and receive applied
\* to the bytes send(f) wrote returns the op-code of f and the field names
\* and values of f, in order.
C27_RoundTrip ==
    /\ (codec.sent # <<>> /\ ValidFrame(FirstSent.message)) => FirstSent.raises = ""
    /\ (FirstRead /\ codec.damage = "none" /\ ValidFrame(FirstSent.message)) =>
          /\ codec.received.outcome = "returns"
          /\ codec.received.message.op_code = PyInt(op_code_to_number[FirstSent.message.op_code])
          /\ FieldsOf(codec.received.message) = FirstSent.message.payload


\* C28: when the byte stream of an encoded frame ends before the declared
\* payload length has been delivered (the header or the payload is cut short
\* by one or more bytes), receive raises and returns no message.
C28_TruncationFails ==
    (codec.damage = "truncated" /\ FirstRead) => codec.received.outcome = "raises"


\* a string field record: the tag byte (1 << 4 | field index), the varint
\* of the UTF-8 byte length, the UTF-8 bytes
StringRecord(item) ==
    LET bytes == encode_utf8(item.value.chars)
    IN  <<16 + field_name_index[item.field]>> \o varint_encode(Len(bytes)) \o bytes

\* the field records of a payload, in insertion order
RECURSIVE Records(_)
Records(payload) ==
    IF payload = <<>> THEN <<>>
    ELSE StringRecord(Head(payload)) \o Records(Tail(payload))

\* C29: every frame written by send is, in order, the byte 29 (0x1D), the
\* varint of the op-code's number, the varint of L and exactly L bytes of
\* field records in payload insertion order, L being the byte length of those
\* records; each string field record is the tag byte (1 << 4 | field index),
\* the varint of the UTF-8 byte length and the UTF-8 bytes.
C29_WireLayout ==
    \A k \in 1..Len(codec.sent) :
        codec.sent[k].raises = "" =>
            LET message == codec.sent[k].message
            IN  /\ \A i \in 1..Len(message.payload) : message.payload[i].value.type = "str"
                /\ LET records == Records(message.payload)
                   IN  codec.sent[k].data =
                          <<29>> \o varint_encode(op_code_to_number[message.op_code])
                          \o varint_encode(Len(records)) \o records

\* send has written a frame of two string fields, one with a character of
\* two UTF-8 bytes, whose payload is longer than 127 bytes
C29_Witness ==
    /\ codec.sent # <<>> /\ FirstSent.raises = ""
    /\ Len(FirstSent.message.payload) = 2
    /\ FirstSent.message.payload[1].value.chars = <<233>>
    /\ Len(FirstSent.data) > 130
    /\ FirstSent.data[1] = 29


\* the payload length a frame declares: the varint behind its op-code byte
DeclaredLength(frame) == varint_decode(SubSeq(frame, 3, Len(frame))).result

\* the bytes the peer wrote behind its first frame
BehindFirst == IF Len(codec.sent) > 1 THEN codec.sent[2].data ELSE <<>>

\* C30: for every well-formed incoming frame, also one whose payload length
\* is 128 or more and so takes a varint of several bytes, receive returns the
\* frame's op-code number and its declared payload length, and it consumes
\* exactly the bytes of that one frame.
C30_ReceiveHeader ==
    (FirstRead /\ codec.damage = "none") =>
        /\ codec.received.outcome = "returns"
        /\ codec.received.message.op_code = PyInt(FirstSent.data[2])
        /\ codec.received.message.payload_length = DeclaredLength(FirstSent.data)
        /\ codec.stream = BehindFirst


\* the op-code table as published
PublishedTable ==
    [create_account_username |-> 0, create_account_password |-> 1, login |-> 2,
     retrieve_unread_count |-> 3, send_message |-> 4, read_message |-> 5,
     load_unread_messages |-> 6, load_read_messages |-> 7, delete_messages |-> 8,
     delete_account |-> 9, list_accounts |-> 10, quit |-> 11, refresh_request |-> 12,
     error |-> 13, exists |-> 14, ok |-> 15]

\* C31: each operation name is framed with the number the published table
\* gives it (create_account_username = 0 ... quit = 11, refresh_request = 12,
\* error = 13, exists = 14, ok = 15): the mapping from names to numbers is
\* injective, and a refresh_request frame carries op-code 12.
C31_PublishedOpCodes ==
    /\ \A a \in DOMAIN op_code_to_number, b \in DOMAIN op_code_to_number :
          op_code_to_number[a] = op_code_to_number[b] => a = b
    /\ \A k \in 1..Len(codec.sent) :
          codec.sent[k].raises = "" =>
             /\ codec.sent[k].message.op_code \in DOMAIN PublishedTable
             /\ codec.sent[k].data[2] = PublishedTable[codec.sent[k].message.op_code]


\* --------------------------------------- the functions of the codec, called

\* the numbers up to MaxNumber are encoded, and those around the lengths'
\* boundaries
MaxNumber == 300
\* the byte sequences handed to varint_decode have up to MaxBytes bytes
MaxBytes == 3

Numbers ==
    (-1..MaxNumber) \cup {16383, 16384, 2097151, 2097152, 268435455, 268435456, 2147483647}
SomeBytes == {0, 1, 127, 128, 129, 255}
ByteSeqs == UNION {[1..n -> SomeBytes] : n \in 0..MaxBytes}
NibbleArgs == -1..17

\* a range check of pack_two_nibbles that lets 16 through
pack_two_nibbles_rejects_above_16(type_value, index) ==
    ~(0 <= type_value /\ type_value <= 16 /\ 0 <= index /\ index <= 16)

\* pack_two_nibbles raises ValueError unless both numbers are in 0..15
pack_two_nibbles_rejects(type_value, index) ==
    ~(0 <= type_value /\ type_value <= 15 /\ 0 <= index /\ index <= 15)

Called(fn, input, raises, output, origin) ==
    [fn |-> fn, input |-> input, raises |-> raises, output |-> output, origin |-> origin]

\* varint_encode(number): result.append raises ValueError for a negative number
call_varint_encode(number) ==
    /\ call.fn = ""
    /\ call' = IF number < 0
               THEN Called("varint_encode", <<number>>, "ValueError", <<>>, <<>>)
               ELSE Called("varint_encode", <<number>>, "", varint_encode(number), <<>>)
    /\ UNCHANGED <<user_db, active_connections, sock, thread, next_id, now, server_lock, held, codec, client>>

\* varint_decode(data) on bytes from anywhere
call_varint_decode(data) ==
    /\ call.fn = ""
    /\ LET decoded == varint_decode(data)
       IN  call' = Called("varint_decode", data, decoded.raises,
                          <<decoded.result, decoded.num_bytes>>, <<>>)
    /\ UNCHANGED <<user_db, active_connections, sock, thread, next_id, now, server_lock, held, codec, client>>

\* varint_decode on the bytes varint_encode has just returned
call_varint_decode_of_encoded ==
    /\ call.fn = "varint_encode" /\ call.raises = ""
    /\ LET decoded == varint_decode(call.output)
       IN  call' = Called("varint_decode", call.output, decoded.raises,
                          <<decoded.result, decoded.num_bytes>>, call.input)
    /\ UNCHANGED <<user_db, active_connections, sock, thread, next_id, now, server_lock, held, codec, client>>

\* pack_two_nibbles(type_value, index)
call_pack_two_nibbles(type_value, index) ==
    /\ call.fn = ""
    /\ call' = IF pack_two_nibbles_rejects(type_value, index)
               THEN Called("pack_two_nibbles", <<type_value, index>>,
                           "ValueError", <<>>, <<>>)
               ELSE Called("pack_two_nibbles", <<type_value, index>>, "",
                           <<pack_two_nibbles(type_value, index)>>, <<>>)
    /\ UNCHANGED <<user_db, active_connections, sock, thread, next_id, now, server_lock, held, codec, client>>

\* unpack_two_nibbles on the byte pack_two_nibbles has just returned
call_unpack_two_nibbles_of_packed ==
    /\ call.fn = "pack_two_nibbles" /\ call.raises = ""
    /\ call' = Called("unpack_two_nibbles", call.output, "",
                      unpack_two_nibbles(call.output[1]), call.input)
    /\ UNCHANGED <<user_db, active_connections, sock, thread, next_id, now, server_lock, held, codec, client>>

NextCalls ==
    \/ \E number \in Numbers : call_varint_encode(number)
    \/ \E data \in ByteSeqs : call_varint_decode(data)
    \/ call_varint_decode_of_encoded
    \/ \E type_value \in NibbleArgs, index \in NibbleArgs :
          call_pack_two_nibbles(type_value, index)
    \/ call_unpack_two_nibbles_of_packed

SpecCalls == InitCodec /\ [][NextCalls]_vars

\* C32: for every non-negative integer n, varint_decode(varint_encode(n))
\* returns (n, k), k being the number of bytes of varint_encode(n).
C32_VarintRoundTrip ==
    /\ (call.fn = "varint_encode" /\ call.input[1] >= 0) => call.raises = ""
    /\ (call.fn = "varint_decode" /\ call.origin # <<>>) =>
          /\ call.raises = ""
          /\ call.output = <<call.origin[1], Len(call.input)>>

\* 300 and 2147483647 have gone through varint_encode and varint_decode
C32_Witness ==
    /\ call.fn = "varint_decode" /\ call.origin \in {<<300>>, <<2147483647>>}
    /\ call.input \in {<<172, 2>>, <<255, 255, 255, 255, 7>>}


\* C33: varint_decode raises, returning no value, on every byte sequence
\* that ends before a byte with the continuation bit clear is found (the
\* empty sequence and every sequence whose bytes all have the high bit set).
C33_IncompleteVarint ==
    (/\ call.fn = "varint_decode"
     /\ \A i \in 1..Len(call.input) : call.input[i] >= 128) => call.raises = "ValueError"

\* varint_decode has been handed the empty sequence, or three bytes with the
\* high bit set
C33_Witness ==
    /\ call.fn = "varint_decode" /\ call.raises = "ValueError"
    /\ call.input \in {<<>>, <<128, 255, 129>>}

\* C34: for all 256 pairs (type, index) of 0..15 x 0..15,
\* unpack_two_nibbles(pack_two_nibbles(type, index)) = (type, index) and the
\* packed byte is (type << 4) | index: its high nibble is type, its low
\* nibble index; pack_two_nibbles raises when either argument is 16 or more,
\* or negative.
C34_NibbleRoundTrip ==
    /\ call.fn = "pack_two_nibbles" =>
          LET type_value == call.input[1]
              index      == call.input[2]
          IN  IF type_value \in 0..15 /\ index \in 0..15
              THEN /\ call.raises = ""
                   /\ call.output[1] \in 0..255
                   /\ call.output[1] \div 16 = type_value
                   /\ call.output[1] % 16 = index
              ELSE call.raises = "ValueError"
    /\ call.fn = "unpack_two_nibbles" =>
          /\ call.origin[1] \in 0..15 /\ call.origin[2] \in 0..15
          /\ call.output = call.origin

\* the pair (15, 15) has been packed into 255 and unpacked again
C34_Witness ==
    /\ call.fn = "unpack_two_nibbles" /\ call.origin = <<15, 15>>
    /\ call.input = <<255>> /\ call.output = <<15, 15>>


\* ------------------------------------------------------------ the ChatClient

\* user names, texts and message ids as the code points of their characters:
\* "", "u1", "u2", U+00E9; "hi", "yo"; "1"
Names == {<<>>, <<117, 49>>, <<117, 50>>, <<233>>}
ClientTexts == {<<104, 105>>, <<121, 111>>}
ClientIds == {<<49>>}
\* the n of load_unread_messages(n) and load_read_messages(n)
ClientCounts == {5, 10}

Field(field, value) == [field |-> field, value |-> value]
Request(op_code, payload) == [op_code |-> op_code, payload |-> payload]

\* the request constructors of json_wire_protocol.py
create_account_username_request_msg(username) ==
    Request("create_account_username", <<Field("username", PyStr(username))>>)
create_account_password_request_msg(username, password) ==
    Request("create_account_password",
            <<Field("username", PyStr(username)), Field("password", PyStr(password))>>)
login_request_msg(username, password) ==
    Request("login", <<Field("username", PyStr(username)), Field("password", PyStr(password))>>)
send_message_request_msg(sender, recipient, message) ==
    Request("send_message", <<Field("sender", PyStr(sender)),
                              Field("recipient", PyStr(recipient)),
                              Field("message", PyStr(message))>>)
retrieve_unread_count_request_msg(username) ==
    Request("retrieve_unread_count", <<Field("username", PyStr(username))>>)
load_unread_messages_request_msg(username, number_of_messages) ==
    Request("load_unread_messages", <<Field("username", PyStr(username)),
                                      Field("number_of_messages", PyInt(number_of_messages))>>)
load_read_messages_request_msg(username, number_of_messages) ==
    Request("load_read_messages", <<Field("username", PyStr(username)),
                                    Field("number_of_messages", PyInt(number_of_messages))>>)
delete_messages_request_msg(username, message_ids) ==
    Request("delete_messages", <<Field("username", PyStr(username)),
                                 Field("message_ids", PyList(message_ids))>>)
delete_account_request_msg(username) ==
    Request("delete_account", <<Field("username", PyStr(username))>>)
list_accounts_request_msg == Request("list_accounts", <<>>)
quit_request_msg(username) == Request("quit", <<Field("username", PyStr(username))>>)
\* the request read_message builds itself
read_message_request(username, message_id) ==
    Request("read_message", <<Field("username", PyStr(username)),
                              Field("message_id", PyStr(message_id))>>)

\* if not self.current_user: None and the empty string are both false
no_current_user == client.current_user = <<>> \/ client.current_user = <<<<>>>>
current_user == client.current_user[1]

\* self._send(request): wire_protocol.send(request), which writes the frame
\* to the socket or raises before sock.sendall
_send(request) ==
    LET frame == send(request)
    IN  <<[request |-> request, raises |-> frame.raises, data |-> frame.data]>>

\* a method has returned, or raised out of _send
Method(name, sends, user_after) ==
    /\ client.method # "quit"
    /\ client' = [current_user |-> IF sends # <<>> /\ sends[1].raises # ""
                                   THEN client.current_user ELSE user_after,
                  method |-> name, user_before |-> client.current_user, sends |-> sends]
    /\ UNCHANGED <<user_db, active_connections, sock, thread, next_id, now, server_lock, held, codec, call>>

\* a method that returns at once when there is no current user
Guarded(name, request, user_after) ==
    IF no_current_user
    THEN Method(name, <<>>, client.current_user)
    ELSE Method(name, _send(request), user_after)

ChatClient_account_creation_username(username) ==
    Method("account_creation_username",
           _send(create_account_username_request_msg(username)), client.current_user)

ChatClient_account_creation_password(username, password) ==
    Method("account_creation_password",
           _send(create_account_password_request_msg(username, password)), client.current_user)

\* login sets current_user before it sends
ChatClient_login(username, password) ==
    /\ client.method # "quit"
    /\ client' = [current_user |-> <<username>>, method |-> "login",
                  user_before |-> client.current_user,
                  sends |-> _send(login_request_msg(username, password))]
    /\ UNCHANGED <<user_db, active_connections, sock, thread, next_id, now, server_lock, held, codec, call>>

ChatClient_send_message(recipient, message) ==
    Guarded("send_message",
            send_message_request_msg(current_user, recipient, message),
            client.current_user)

ChatClient_read_message(message_id) ==
    Guarded("read_message",
            read_message_request(current_user, message_id),
            client.current_user)

ChatClient_load_unread_messages(n) ==
    Guarded("load_unread_messages",
            load_unread_messages_request_msg(current_user, n),
            client.current_user)

ChatClient_load_read_messages(n) ==
    Guarded("load_read_messages",
            load_read_messages_request_msg(current_user, n),
            client.current_user)

ChatClient_delete_messages(message_ids) ==
    Guarded("delete_messages",
            delete_messages_request_msg(current_user, message_ids),
            client.current_user)

\* delete_account forgets the current user once the request is sent
ChatClient_delete_account ==
    Guarded("delete_account",
            delete_account_request_msg(current_user),
            <<>>)

ChatClient_list_accounts ==
    Method("list_accounts", _send(list_accounts_request_msg), client.current_user)

ChatClient_retrieve_number_of_unread_messages ==
    Guarded("retrieve_number_of_unread_messages",
            retrieve_unread_count_request_msg(current_user),
            client.current_user)

\* quit sends a request when there is a current user, forgets the user and
\* closes the socket: no method is called on the client after it
ChatClient_quit ==
    IF no_current_user
    THEN Method("quit", <<>>, <<>>)
    ELSE Method("quit", _send(quit_request_msg(current_user)), <<>>)

NextClient ==
    \/ \E username \in Names : ChatClient_account_creation_username(username)
    \/ \E username \in Names, password \in ClientTexts :
          ChatClient_account_creation_password(username, password)
    \/ \E username \in Names, password \in ClientTexts : ChatClient_login(username, password)
    \/ \E recipient \in Names, message \in ClientTexts :
          ChatClient_send_message(recipient, message)
    \/ \E message_id \in ClientIds : ChatClient_read_message(message_id)
    \/ \E n \in ClientCounts : ChatClient_load_unread_messages(n)
    \/ \E n \in ClientCounts : ChatClient_load_read_messages(n)
    \/ \E message_ids \in {<<>>, <<PyStr(<<49>>)>>} : ChatClient_delete_messages(message_ids)
    \/ ChatClient_delete_account
    \/ ChatClient_list_accounts
    \/ ChatClient_retrieve_number_of_unread_messages
    \/ ChatClient_quit

SpecClient == InitCodec /\ [][NextClient]_vars

\* the methods that need a current user
NeedCurrentUser ==
    {"send_message", "read_message", "load_unread_messages", "load_read_messages",
     "delete_messages", "delete_account", "retrieve_number_of_unread_messages"}

\* the request names the user: it carries the name as username or as sender
NamesUser(request, user) ==
    \E k \in 1..Len(request.payload) :
        /\ request.payload[k].field \in {"username", "sender"}
        /\ request.payload[k].value = PyStr(user)

\* C35: a ChatClient with no current user sends nothing for send_message,
\* read_message, load_unread_messages, load_read_messages, delete_messages,
\* delete_account and retrieve_number_of_unread_messages; with a current user
\* each of these calls writes exactly one request, which names that user.
C35_ClientNeedsUser ==
    client.method \in NeedCurrentUser =>
        IF client.user_before = <<>> \/ client.user_before = <<<<>>>>
        THEN client.sends = <<>>
        ELSE /\ Len(client.sends) = 1
             /\ client.sends[1].raises = ""
             /\ client.sends[1].data # <<>>
             /\ NamesUser(client.sends[1].request, client.user_before[1])


\* the positions of the written frames that are responses to connection c
Responses(written, c) ==
    {i \in 1..Len(written) :
        written[i].to = c /\ written[i].message.op_code \in {"ok", "exists", "error"}}

\* C36: every dispatched request causes exactly one response (ok, exists or
\* error) to be written to the connection it arrived on, an op-code the
\* dispatcher does not recognise included; the only other frame a handler
\* writes is at most one refresh_request, written to the connection
\* registered for the recipient during send_message.
C36_OneResponse ==
    \A c \in Conns :
        (Dispatching(c) /\ Connected(c)) =>
            \A request \in Requests :
                LET written   == Written(HandlerOutcome(c, request).sends)
                    responses == Responses(written, c)
                    others    == (1..Len(written)) \ responses
                IN  /\ Cardinality(responses) = 1
                    /\ Cardinality(others) <= 1
                    /\ \A i \in others :
                          /\ written[i].message.op_code = "refresh_request"
                          /\ request.op_code = "send_message"
                          /\ request.recipient \in DOMAIN active_connections
                          /\ written[i].to = active_connections[request.recipient]


\* ------------------------------------------- the lock, with waiting threads

\* the requests received in the fair specification
LiveRequests ==
    {request \in Requests :
        /\ request.op_code \in {"login", "retrieve_unread_count", "list_accounts",
                                "quit", "bogus"}
        /\ "username" \in DOMAIN request => request.username = "u1"
        /\ "password" \in DOMAIN request => request.password = "p1"}

\* wire_protocol.receive() returns a request on connection c: the thread
\* goes to the with statement and waits there for server_lock
Receive(c, request) ==
    /\ thread[c] = "running"
    /\ sock[c] = "open"
    /\ thread' = [thread EXCEPT ![c] = "waiting"]
    /\ held' = [held EXCEPT ![c] = [pending |-> request]]
    /\ UNCHANGED <<user_db, active_connections, sock, next_id, now, server_lock, codec, call, client>>

\* the waiting thread gets the lock and runs the handler of its request up
\* to the server_send calls
EnterPending(c) ==
    /\ thread[c] = "waiting"
    /\ acquire(c)
    /\ server_lock' = c
    /\ thread' = [thread EXCEPT ![c] = "handling"]
    /\ LET request == held[c].pending
           outcome == HandlerOutcome(c, request)
           quits   == request.op_code = "quit"
       IN  /\ user_db' = outcome.db
           /\ active_connections' = IF quits THEN active_connections ELSE outcome.registry
           /\ held' = [held EXCEPT ![c] =
                          [plan   |-> outcome,
                           raised |-> Raises(outcome.sends),
                           del    |-> IF quits /\ request.username \in DOMAIN user_db
                                      THEN request.username ELSE "",
                           exits  |-> quits]]
    /\ UNCHANGED <<sock, next_id, now, codec, call, client>>

\* the server_send calls and the end of the with block, as in Leave; what
\* was written to the connection stays on record until its next request
LeavePending(c) ==
    /\ thread[c] = "handling"
    /\ LET raises == Raises(held[c].plan.sends)
       IN  /\ active_connections' =
                 IF ~raises /\ held[c].del # ""
                 THEN [u \in DOMAIN active_connections \ {held[c].del} |->
                          active_connections[u]]
                 ELSE active_connections
           /\ thread' = [thread EXCEPT ![c] =
                            IF raises \/ held[c].exits THEN "done" ELSE "running"]
           /\ held' = [held EXCEPT ![c] = [written |-> Written(held[c].plan.sends)]]
    /\ server_lock' = 0
    /\ UNCHANGED <<user_db, sock, next_id, now, codec, call, client>>

NextLive ==
    \/ \E c \in Conns : Accept(c)
    \/ \E c \in Conns : Close(c)
    \/ \E c \in Conns, request \in LiveRequests : Receive(c, request)
    \/ \E c \in Conns : EnterPending(c)
    \/ \E c \in Conns : LeavePending(c)

\* a thread that runs goes on running, and a thread blocked at the with
\* statement gets the lock at one of its releases
Fairness ==
    \A c \in Conns : WF_vars(LeavePending(c)) /\ SF_vars(EnterPending(c))

SpecLive == Init /\ [][NextLive]_vars /\ Fairness

\* connection c has received a request that is not yet handled
Pending(c) == thread[c] = "waiting"

\* the last request of connection c has been handled and a response to it
\* was written to c
AnsweredOn(c) ==
    /\ thread[c] \in {"running", "done"}
    /\ "written" \in DOMAIN held[c]
    /\ \E i \in 1..Len(held[c].written) :
          /\ held[c].written[i].to = c
          /\ held[c].written[i].message.op_code \in {"ok", "exists", "error"}

\* C37: every request a connection has completely received is eventually
\* dispatched and answered, however the handlers of other connections end
\* (normal return, quit, or an exception raised inside the handler); the
\* lock is never left held by a thread that has finished or died.  Socket
\* writes complete: no socket of this specification breaks.
C37_EventuallyAnswered ==
    /\ \A c \in Conns : Pending(c) ~> AnsweredOn(c)
    /\ [](\A c \in Conns : server_lock = c => thread[c] = "handling")


\* C38: in every reachable state, every user whose session_status is online
\* has an entry in the session registry.
C38_OnlineRegistered ==
    \A u \in DOMAIN user_db : Online(u) => u \in DOMAIN active_connections

\* u1 is online and registered, and u2 has quit: offline and not registered
C38_Witness ==
    /\ Online("u1") /\ "u1" \in DOMAIN active_connections
    /\ "u2" \in DOMAIN user_db /\ ~Online("u2") /\ "u2" \notin DOMAIN active_connections
    /\ \E i \in 1..Len(user_db["u1"].messages) : user_db["u1"].messages[i].sender = "u2"


\* the send_message requests whose recipient is u
MessagesTo(u) ==
    {request \in Requests : request.op_code = "send_message" /\ request.recipient = u}

\* the connections the handler of the request, run now on connection d,
\* sends a refresh_request to
Pushes(d, request) ==
    LET sends == HandlerOutcome(d, request).sends
    IN  {sends[i].to : i \in {j \in 1..Len(sends) :
                                 sends[j].message.op_code = "refresh_request"}}

\* C39: when a user logs in successfully on connection c1 and later on
\* connection c2 with no quit in between, the registry maps the user to c2
\* only: every later refresh_request for the user goes to c2 and none to c1,
\* and the registry holds one connection per username.  Stated for every
\* successful login: it leaves the user registered on its own connection,
\* and in every state a refresh_request goes to the one connection the
\* registry holds for the recipient.
C39_LastLoginWins ==
    /\ [](/\ active_connections \in [DOMAIN active_connections -> Conns]
          /\ \A u \in Users, d \in Conns :
                \A request \in MessagesTo(u) :
                   \A to \in Pushes(d, request) :
                      u \in DOMAIN active_connections /\ to = active_connections[u])
    /\ [][\A c2 \in Conns, u \in Users, p \in Passwords :
             (/\ u \in DOMAIN user_db
              /\ user_db[u].hashed_password = hash_password(u, p)
              /\ client_handler_login(c2, u, p)) =>
                 /\ u \in DOMAIN active_connections'
                 /\ active_connections'[u] = c2
                 /\ \A d \in Conns : \A request \in MessagesTo(u) :
                       Pushes(d, request)' \subseteq {c2}]_vars

\* u1, logged in on connection 1 and then on connection 2 while connection 1
\* stays open, is registered on connection 2, where a message sent to u1
\* from connection 1 is announced
C39_Witness ==
    /\ Online("u1") /\ "u1" \in DOMAIN active_connections
    /\ active_connections["u1"] = 2
    /\ Connected(1) /\ Dispatching(1) /\ Connected(2) /\ Dispatching(2)
    /\ \E request \in MessagesTo("u1") : Pushes(1, request) = {2}


\* C40: the read flag of a stored message is monotone: once a message in a
\* mailbox has read = true, no operation sets it back to false while the
\* message is in the mailbox.
C40_ReadMonotone ==
    [][\A u \in DOMAIN user_db :
          \A i \in 1..Len(user_db[u].messages) :
             user_db[u].messages[i].read =>
                (u \in DOMAIN user_db' =>
                    \A j \in 1..Len(user_db'[u].messages) :
                       user_db'[u].messages[j].message_id = user_db[u].messages[i].message_id
                          => user_db'[u].messages[j].read)]_vars

\* the mailbox of u1 holds a message that is read, and behind it a message
\* that arrived after u1 went offline
C40_Witness ==
    /\ "u1" \in DOMAIN user_db /\ ~Online("u1")
    /\ Len(user_db["u1"].messages) = 2
    /\ user_db["u1"].messages[1].read
    /\ ~user_db["u1"].messages[2].read

=============================================================================
